---------------------------- MODULE Spec2Model ----------------------------
(***************************************************************************)
(* A model of the glTF importer of DiligentTools                           *)
(* (AssetLoader/src/GLTFLoader.cpp): Model::LoadFromFile and the functions  *)
(* it calls, Node::GetMatrix / Node::Update, Model::GetSceneDimensions and  *)
(* Model::UpdateAnimation.                                                  *)
(*                                                                         *)
(* Two state machines share the module.  The first is one load of a         *)
(* document, from LoadMaterials to the loaded Model, with the upload pass    *)
(* (PrepareGPUResources) and the UpdateAnimation calls on it; its textures   *)
(* are loaded by the one thread alone.  The second is the texture path of    *)
(* LoadFromFile (the image callback of the parser, then LoadTextures) for    *)
(* two Model objects that share one texture cache, each loaded on its own    *)
(* thread; one of them may be given the resource manager as well.            *)
(*                                                                         *)
(* Abstractions, stated once:                                              *)
(*  - Space is two-dimensional: a float3 is a pair <<x, y>> and a float4x4  *)
(*    is a 3x3 homogeneous matrix (row-vector convention, as in the source: *)
(*    v * M).  This is the restriction of the source's arithmetic to        *)
(*    transforms that fix the z axis.                                       *)
(*  - A rotation quaternion is a rotation about z, held as its angle in     *)
(*    quarter turns (0..3).                                                 *)
(*  - Floats are integers; the documents drawn keep every interpolation     *)
(*    exact (Lerp fails loudly otherwise).                                  *)
(*  - All counts stay far below 2^32, so the uint32_t arithmetic of the     *)
(*    index offsets never wraps in the documents drawn.                     *)
(*  - A pixel is a tuple of bytes and an alpha cutoff a number of          *)
(*    hundredths; the alpha remapping is computed exactly and cut to an     *)
(*    integer.                                                              *)
(*  - Of a material the workflow, the alpha mode and two texture indices    *)
(*    are kept.                                                             *)
(*  - The device context is the sequence of the calls issued on it; a       *)
(*    texture has one staged level.                                         *)
(***************************************************************************)
EXTENDS Integers, Sequences, FiniteSets, TLC

(***************************************************************************)
(* Bounds of the model.                                                    *)
(***************************************************************************)
MaxPrims == 2
MaxVerts == 2
MaxTime == 4
MaxMaterials == 2
MaxPixels == 2
MaxTextures == 2

(***************************************************************************)
(* Program constants.                                                      *)
(***************************************************************************)
TINYGLTF_PARAMETER_TYPE_UNSIGNED_INT == 5125
TINYGLTF_PARAMETER_TYPE_UNSIGNED_SHORT == 5123
TINYGLTF_PARAMETER_TYPE_UNSIGNED_BYTE == 5121
FLT_MAX == 1000000

(***************************************************************************)
(* Vectors, matrices and boxes (BasicMath / AdvancedMath of the engine).   *)
(***************************************************************************)
MinOf(a, b) == IF a <= b THEN a ELSE b
MaxOf(a, b) == IF a >= b THEN a ELSE b

\* std::min / std::max on float3: componentwise.
VecMin(a, b) == <<MinOf(a[1], b[1]), MinOf(a[2], b[2])>>
VecMax(a, b) == <<MaxOf(a[1], b[1]), MaxOf(a[2], b[2])>>

IdentityMatrix == <<<<1, 0, 0>>, <<0, 1, 0>>, <<0, 0, 1>>>>

MatMul(A, B) ==
    [i \in 1..3 |-> [j \in 1..3 |->
        A[i][1] * B[1][j] + A[i][2] * B[2][j] + A[i][3] * B[3][j]]]

\* float4x4::Scale(S)
ScaleMatrix(S) == <<<<S[1], 0, 0>>, <<0, S[2], 0>>, <<0, 0, 1>>>>

\* float4x4::Translation(T): the translation is the last row (v * M).
TranslationMatrix(T) == <<<<1, 0, 0>>, <<0, 1, 0>>, <<T[1], T[2], 1>>>>

\* Quaternion::ToMatrix() for a rotation of h quarter turns about z.
RotationToMatrix(h) ==
    CASE h % 4 = 0 -> IdentityMatrix
      [] h % 4 = 1 -> <<<<0, 1, 0>>, <<-1, 0, 0>>, <<0, 0, 1>>>>
      [] h % 4 = 2 -> <<<<-1, 0, 0>>, <<0, -1, 0>>, <<0, 0, 1>>>>
      [] h % 4 = 3 -> <<<<0, -1, 0>>, <<1, 0, 0>>, <<0, 0, 1>>>>

\* p * M for the point <<x, y, 1>>.
TransformPoint(p, M) ==
    <<p[1] * M[1][1] + p[2] * M[2][1] + M[3][1],
      p[1] * M[1][2] + p[2] * M[2][2] + M[3][2]>>

\* BoundBox::Transform: the box of the transformed corners.
BoundBoxTransform(BB, M) ==
    LET c1 == TransformPoint(<<BB.Min[1], BB.Min[2]>>, M)
        c2 == TransformPoint(<<BB.Min[1], BB.Max[2]>>, M)
        c3 == TransformPoint(<<BB.Max[1], BB.Min[2]>>, M)
        c4 == TransformPoint(<<BB.Max[1], BB.Max[2]>>, M)
    IN  [Min |-> VecMin(VecMin(c1, c2), VecMin(c3, c4)),
         Max |-> VecMax(VecMax(c1, c2), VecMax(c3, c4))]

\* A default-constructed BoundBox (zero vectors).
ZeroBox == [Min |-> <<0, 0>>, Max |-> <<0, 0>>]

\* lerp(a, b, u) for u = num / den; the result has to be an integer.
Lerp(a, b, num, den) ==
    LET s == a * (den - num) + b * num
    IN  CHOOSE r \in MinOf(a, b)..MaxOf(a, b) : r * den = s

VecLerp(a, b, num, den) ==
    <<Lerp(a[1], b[1], num, den), Lerp(a[2], b[2], num, den)>>

(***************************************************************************)
(* The state.                                                              *)
(***************************************************************************)
VARIABLES
    gltf_model,   \* the parsed document (tinygltf::Model), read-only after Init
    pc,           \* the position of Model::LoadFromFile, then "loaded" / "crashed"
    rootIdx,      \* the loop counter i of LoadFromFile's loop over scene.nodes
    stack,        \* the activation records of the recursive Model::LoadNode
    heap,         \* the Node objects alive: id -> Node
    heapCount,    \* the number of Node objects allocated so far
    Nodes,        \* Model::Nodes: the root nodes (owning)
    LinearNodes,  \* Model::LinearNodes: raw pointers in load order
    Materials,    \* Model::Materials
    InitData,     \* Model::InitData: <<>> (null) or <<ResourceInitData>>
    Buffers,      \* Model::Buffers: the index buffer's initial data, once created
    Animations,   \* Model::Animations
    Skins,        \* Model::Skins
    dimensions,   \* Model::dimensions
    pContext,     \* LoadFromFile's pContext argument is not null
    primLog,      \* history: the primitives LoadNode has processed, in order
    lastCall,     \* history: the last UpdateAnimation call and what it applied
    CacheInfo,    \* Model::CacheInfo: whether pResourceMgr is set
    Textures,     \* Model::Textures: one TextureInfo per texture of the document
    pCtx,         \* the calls issued on the device context, in order
    prepared,     \* history: PrepareGPUResources has been called on the Model
    loads,        \* the LoadFromFile calls that load textures: loader -> its state
    TexturesMtx,  \* pTextureCache->TexturesMtx: 0 or the loader holding it
    TextureCache, \* pTextureCache->Textures: CacheId -> texture (a weak reference)
    deviceTextures, \* the textures the render device has created, in order
    ResourceMgr   \* pCache->pResourceMgr: its reference counter and allocations

sceneVars == <<gltf_model, pc, rootIdx, stack, heap, heapCount, Nodes, LinearNodes,
             Materials, InitData, Buffers, Animations, Skins, dimensions,
             pContext, primLog, lastCall, CacheInfo, Textures, pCtx, prepared>>

\* What the upload pass reads and writes beside InitData and Buffers.
gpuVars == <<CacheInfo, Textures, pCtx, prepared>>

texVars == <<loads, TexturesMtx, TextureCache, deviceTextures, ResourceMgr>>

vars == <<sceneVars, texVars>>

(***************************************************************************)
(* Documents (tinygltf::Model).  Arrays of the document are functions on   *)
(* 0..n-1, as the document indexes them; -1 is "none".  An optional vector *)
(* (translation, rotation, scale, matrix) is <<>> when the document does   *)
(* not give it (the source tests its size).                                *)
(***************************************************************************)
ZeroBased(seq) == [i \in 0..(Len(seq) - 1) |-> seq[i + 1]]

GltfNode(children, mesh, skin, translation, rotation, scale, matrix) ==
    [children |-> children, mesh |-> mesh, skin |-> skin,
     translation |-> translation, rotation |-> rotation, scale |-> scale,
     matrix |-> matrix]

\* A node with no transform of its own.
PlainNode(children, mesh) == GltfNode(children, mesh, -1, <<>>, <<>>, <<>>, <<>>)

\* A primitive: the POSITION accessor (count, min, max), whether JOINTS_0 and
\* WEIGHTS_0 are both present, the index accessor and the material.
GltfPrimitive(count, posMin, posMax, skinned, indices, componentType, raw, material) ==
    [count |-> count, minValues |-> posMin, maxValues |-> posMax,
     skinned |-> skinned, indices |-> indices, componentType |-> componentType,
     raw |-> raw, material |-> material]

\* tinygltf::Material, as far as the loader reads it: the texture indices
\* of values["baseColorTexture"] and values["metallicRoughnessTexture"] (-1:
\* the key is absent), additionalValues["alphaMode"] ("": absent),
\* additionalValues["alphaCutoff"] in hundredths (-1: absent), and the
\* KHR_materials_pbrSpecularGlossiness block (<<>>: absent) with the indices
\* of its specularGlossinessTexture and diffuseTexture (-1: absent).
GltfMaterial(baseColorTexture, metallicRoughnessTexture, alphaMode, alphaCutoff, extension) ==
    [baseColorTexture |-> baseColorTexture,
     metallicRoughnessTexture |-> metallicRoughnessTexture,
     alphaMode |-> alphaMode, alphaCutoff |-> alphaCutoff, extension |-> extension]

SpecularGlossiness(specularGlossinessTexture, diffuseTexture) ==
    <<[specularGlossinessTexture |-> specularGlossinessTexture,
       diffuseTexture |-> diffuseTexture]>>

\* A material that names nothing.
PlainMaterial == GltfMaterial(-1, -1, "", -1, <<>>)

GltfDocument(nodes, sceneNodes, meshes, nMaterials, skins, animations) ==
    [nodes |-> ZeroBased(nodes), sceneNodes |-> sceneNodes,
     meshes |-> ZeroBased(meshes),
     materials |-> [i \in 1..nMaterials |-> PlainMaterial],
     textures |-> <<>>,
     skins |-> skins, animations |-> animations]

\* Document doc with the materials replaced.
WithMaterials(doc, materials) == [doc EXCEPT !.materials = materials]

\* The source image of a texture, gltf_model.images[gltf_tex.source], as the
\* image callback left it: decoded to one row of 4-component pixels, raw
\* DDS / KTX bytes, or nothing when the decode failed; fits says whether the
\* resource manager has room for it.
GltfTextureImage(uri, pixel_type, image, fits) ==
    [uri |-> uri, pixel_type |-> pixel_type, image |-> image, fits |-> fits,
     width  |-> IF pixel_type = "UNSIGNED_BYTE" THEN Len(image) ELSE -1,
     height |-> IF pixel_type = "UNSIGNED_BYTE" THEN 1 ELSE -1,
     component |-> IF pixel_type = "UNSIGNED_BYTE" THEN 4 ELSE -1]

\* Document doc with the textures replaced.
WithTextures(doc, textures) == [doc EXCEPT !.textures = textures]

(***************************************************************************)
(* Model objects.                                                          *)
(***************************************************************************)
\* Node{} as LoadNode fills it (GLTFLoader.cpp 273-301).
NewNodeObject(parent, gltf_node, nodeIndex) ==
    [Index       |-> nodeIndex,
     Parent      |-> parent,
     Children    |-> <<>>,
     SkinIndex   |-> gltf_node.skin,
     Skin        |-> 0,
     Matrix      |-> IF gltf_node.matrix # <<>> THEN gltf_node.matrix[1]
                     ELSE IdentityMatrix,
     Translation |-> IF gltf_node.translation # <<>> THEN gltf_node.translation[1]
                     ELSE <<0, 0>>,
     Rotation    |-> IF gltf_node.rotation # <<>> THEN gltf_node.rotation[1]
                     ELSE 0,
     Scale       |-> IF gltf_node.scale # <<>> THEN gltf_node.scale[1]
                     ELSE <<1, 1>>,
     Mesh        |-> <<>>,
     AABB        |-> ZeroBox,
     BVH         |-> ZeroBox,
     IsValidBVH  |-> FALSE]

\* Mesh::Mesh(pDevice, matrix)
NewMeshObject(matrix) ==
    [Primitives |-> <<>>, BB |-> ZeroBox,
     Transforms |-> [matrix |-> matrix, jointMatrices |-> <<>>]]

\* new ResourceInitData
NewResourceInitData ==
    [Textures |-> <<>>, IndexData |-> <<>>, VertexData0 |-> <<>>, VertexData1 |-> <<>>]

\* The node and everything it owns through Children (what ~Node frees).
RECURSIVE Subtree(_, _)
Subtree(h, n) ==
    {n} \cup UNION {Subtree(h, h[n].Children[i]) : i \in 1..Len(h[n].Children)}

Top == stack[Len(stack)]
Pop == SubSeq(stack, 1, Len(stack) - 1)

(***************************************************************************)
(* Model::LoadMaterials, the body of the loop over gltf_model.materials    *)
(* (987-1129).  Of a Material the model keeps the workflow, the alpha      *)
(* mode and the texture indices of the base colour and of the physical     *)
(* descriptor; factors and UV selectors are left out.                      *)
(***************************************************************************)
\* Material{}: the default member initialisers of the structure.
DefaultMaterial ==
    [Workflow  |-> "PBR_WORKFLOW_METALL_ROUGH",
     AlphaMode |-> "ALPHA_MODE_OPAQUE",
     TextureIds |-> [TEXTURE_ID_BASE_COLOR |-> -1, TEXTURE_ID_PHYSICAL_DESC |-> -1]]

\* The material index of a document texture parameter (1010-1018).
TextureParameter(current, index) == IF index >= 0 THEN index ELSE current

\* Mat.AlphaMode (1043-1060).
MaterialAlphaMode(gltf_mat) ==
    CASE gltf_mat.alphaMode = "BLEND" -> "ALPHA_MODE_BLEND"
      [] gltf_mat.alphaMode = "MASK"  -> "ALPHA_MODE_MASK"
      [] OTHER                        -> DefaultMaterial.AlphaMode

\* Mat.Attribs.Workflow (1070, 1076-1087): spec-gloss only inside
\* if (ext_it->second.Has("specularGlossinessTexture")).
MaterialWorkflow(gltf_mat) ==
    IF gltf_mat.extension # <<>> /\ gltf_mat.extension[1].specularGlossinessTexture >= 0
    THEN "PBR_WORKFLOW_SPEC_GLOSS"
    ELSE "PBR_WORKFLOW_METALL_ROUGH"

LoadMaterial(gltf_mat) ==
    LET ext == gltf_mat.extension
        base == TextureParameter(DefaultMaterial.TextureIds.TEXTURE_ID_BASE_COLOR,
                                 gltf_mat.baseColorTexture)
        desc == TextureParameter(DefaultMaterial.TextureIds.TEXTURE_ID_PHYSICAL_DESC,
                                 gltf_mat.metallicRoughnessTexture)
    IN  [Workflow  |-> MaterialWorkflow(gltf_mat),
         AlphaMode |-> MaterialAlphaMode(gltf_mat),
         TextureIds |->
            [TEXTURE_ID_BASE_COLOR |->
                IF ext # <<>> THEN TextureParameter(base, ext[1].diffuseTexture)
                ELSE base,
             TEXTURE_ID_PHYSICAL_DESC |->
                IF ext # <<>> THEN TextureParameter(desc, ext[1].specularGlossinessTexture)
                ELSE desc]]

\* TextureInfo{}: neither a texture nor an allocation.
NewTextureInfo == [pTexture |-> 0, pCacheAllocation |-> 0]

\* TextureInfo::IsValid()
IsValid(TexInfo) == TexInfo.pTexture # 0 \/ TexInfo.pCacheAllocation # 0

\* GLTFResourceManager::FindAllocation(CacheId): the allocation registered
\* under the key, or null (0).
FindAllocation(id) ==
    IF id \in DOMAIN ResourceMgr.Registered THEN ResourceMgr.Registered[id] ELSE 0

(***************************************************************************)
(* GetTextureAlphaCutoffValue (600-673).  A cutoff is a number of          *)
(* hundredths: 50 is the default 0.5f, -100 the initial -1.f.  The result  *)
(* is the cutoff and the warnings logged on the way.                       *)
(***************************************************************************)
RECURSIVE AlphaCutoffLoop(_, _, _, _, _)
AlphaCutoffLoop(materials, TextureIndex, m, AlphaCutoff, warnings) ==
    IF m > Len(materials)
    THEN [AlphaCutoff |-> MaxOf(AlphaCutoff, 0), warnings |-> warnings]
    ELSE LET gltf_mat == materials[m]
             MaterialAlphaCutoff == IF gltf_mat.alphaCutoff # -1
                                    THEN gltf_mat.alphaCutoff ELSE 50
         IN  IF gltf_mat.baseColorTexture = -1
                   \/ gltf_mat.baseColorTexture # TextureIndex
             THEN AlphaCutoffLoop(materials, TextureIndex, m + 1, AlphaCutoff, warnings)
             ELSE IF gltf_mat.alphaMode = ""
             THEN AlphaCutoffLoop(materials, TextureIndex, m + 1, 0, warnings)
             ELSE IF gltf_mat.alphaMode = "MASK"
             THEN IF AlphaCutoff < 0
                  THEN AlphaCutoffLoop(materials, TextureIndex, m + 1,
                                       MaterialAlphaCutoff, warnings)
                  ELSE IF AlphaCutoff # MaterialAlphaCutoff
                  THEN AlphaCutoffLoop(materials, TextureIndex, m + 1, AlphaCutoff,
                                       Append(warnings,
                                              IF AlphaCutoff = 0
                                              THEN "alpha-cut and non-alpha-cut"
                                              ELSE "different cutoff thresholds"))
                  ELSE AlphaCutoffLoop(materials, TextureIndex, m + 1, AlphaCutoff,
                                       warnings)
             ELSE AlphaCutoffLoop(materials, TextureIndex, m + 1, 0,
                                  IF AlphaCutoff > 0
                                  THEN Append(warnings, "alpha-cut and non-alpha-cut")
                                  ELSE warnings)

GetTextureAlphaCutoffValue(materials, TextureIndex) ==
    AlphaCutoffLoop(materials, TextureIndex, 1, -100, <<>>)

(***************************************************************************)
(* PrepareGLTFTextureInitData (84-164): level 0 of the texture data.  The  *)
(* float expression of line 146 is computed exactly and cut to an integer  *)
(* by the cast: with the cutoff c in hundredths,                           *)
(*    1/3 * a + 2/3 * (c / 100 * 255) = (10 * a + 51 * c) / 30.            *)
(* The further mip levels (166-186) are left out.                          *)
(***************************************************************************)
\* The remapped value without the maximum.
RemapAlpha_NoMax(a, AlphaCutoff) == MinOf((10 * a + 51 * AlphaCutoff) \div 30, 255)

\* dst[3] at line 146.
RemapAlpha(a, AlphaCutoff) ==
    MaxOf(a, MinOf((10 * a + 51 * AlphaCutoff) \div 30, 255))

PrepareGLTFTextureInitData(gltfimage, AlphaCutoff) ==
    IF gltfimage.component = 3
    THEN [i \in 1..Len(gltfimage.image) |->
             <<gltfimage.image[i][1], gltfimage.image[i][2], gltfimage.image[i][3], 255>>]
    ELSE IF gltfimage.component = 4
    THEN IF AlphaCutoff > 0
         THEN [i \in 1..Len(gltfimage.image) |->
                  <<gltfimage.image[i][1], gltfimage.image[i][2], gltfimage.image[i][3],
                    RemapAlpha(gltfimage.image[i][4], AlphaCutoff)>>]
         ELSE gltfimage.image
    ELSE <<>>

(***************************************************************************)
(* Model::LoadTextures (675-836) as a load runs it on its own: the texture  *)
(* cache is empty when the load begins, so it holds what this load has put  *)
(* in it, and the key BaseDir + uri, with the same BaseDir for every image  *)
(* of the load, is the uri.  gltf_model.textures[k] is the source image of  *)
(* texture k as the image callback left it.  A texture object this load     *)
(* creates and an allocation it makes are named by the number of the        *)
(* texture entry they are made for.                                         *)
(***************************************************************************)
\* GLTFCacheInfo, of which the load reads pResourceMgr.
GLTFCacheInfo(pResourceMgr) == [pResourceMgr |-> pResourceMgr]
NoCache == GLTFCacheInfo(FALSE)

\* it->second.Lock() at 711: the texture an earlier iteration of this load
\* has inserted for the uri (829), or null.
CachedTexture(textures, loaded, k) ==
    LET hits == {j \in 1..(k - 1) : /\ textures[j].uri = textures[k].uri
                                    /\ loaded[j].pTexture # 0}
    IN  IF hits = {} THEN 0
        ELSE loaded[CHOOSE j \in hits : \A i \in hits : j <= i].pTexture

\* TextureInitData: Levels is empty, or holds level 0.
NewTextureInitData == [Levels |-> <<>>]

\* One iteration of the loop (680-835): the TextureInfo and the
\* TextureInitData appended for texture k.
LoadTexture(textures, materials, loaded, k) ==
    LET gltf_image == textures[k]
        sized == gltf_image.width > 0 /\ gltf_image.height > 0
        raw == gltf_image.pixel_type \in {"DDS", "KTX"}
        found == IF CacheInfo.pResourceMgr
                 THEN [pTexture |-> 0, pCacheAllocation |-> FindAllocation(gltf_image.uri)]
                 ELSE [pTexture |-> CachedTexture(textures, loaded, k),
                       pCacheAllocation |-> 0]
        AlphaCutoff == GetTextureAlphaCutoffValue(materials, k - 1).AlphaCutoff
        Level0 == [Levels |-> <<PrepareGLTFTextureInitData(gltf_image, AlphaCutoff)>>]
    IN  IF IsValid(found) THEN [TexInfo |-> found, TexInitData |-> NewTextureInitData]
        ELSE IF sized /\ CacheInfo.pResourceMgr
        THEN IF gltf_image.fits
             THEN [TexInfo |-> [pTexture |-> 0, pCacheAllocation |-> k],
                   TexInitData |-> Level0]
             ELSE [TexInfo |-> NewTextureInfo, TexInitData |-> NewTextureInitData]
        ELSE IF sized
        THEN [TexInfo |-> [pTexture |-> k, pCacheAllocation |-> 0], TexInitData |-> Level0]
        ELSE IF raw
        THEN [TexInfo |-> [pTexture |-> k, pCacheAllocation |-> 0],
              TexInitData |-> NewTextureInitData]
        ELSE [TexInfo |-> NewTextureInfo, TexInitData |-> NewTextureInitData]

\* The loop from texture k on; r is [Textures, InitDataTextures].
RECURSIVE LoadTexturesLoop(_, _, _, _)
LoadTexturesLoop(r, textures, materials, k) ==
    IF k > Len(textures) THEN r
    ELSE LET t == LoadTexture(textures, materials, r.Textures, k)
         IN  LoadTexturesLoop([Textures |-> Append(r.Textures, t.TexInfo),
                               InitDataTextures |->
                                  Append(r.InitDataTextures, t.TexInitData)],
                              textures, materials, k + 1)

LoadTextures(textures, materials) ==
    LoadTexturesLoop([Textures |-> <<>>, InitDataTextures |-> <<>>], textures, materials, 1)

(***************************************************************************)
(* Model::LoadFromFile, lines 1580-1584: the staging structure and the     *)
(* textures, then the materials.  LoadTextures runs on its own here (how   *)
(* loads that share a cache interleave is the second state machine below);  *)
(* the samplers of LoadTextureSamplers are left out.  LoadMaterials appends *)
(* one entry per document material and then the default material.           *)
(***************************************************************************)
LoadMaterials ==
    /\ pc = "LoadMaterials"
    /\ LET loaded == LoadTextures(gltf_model.textures, gltf_model.materials)
       IN  /\ InitData' = <<[NewResourceInitData EXCEPT
                                !.Textures = loaded.InitDataTextures]>>
           /\ Textures' = loaded.Textures
    /\ Materials' = [i \in 1..Len(gltf_model.materials) |->
                         LoadMaterial(gltf_model.materials[i])] \o <<DefaultMaterial>>
    /\ pc' = "LoadNode"
    /\ UNCHANGED <<texVars, CacheInfo, pCtx, prepared, gltf_model, rootIdx, stack, heap,
                   heapCount, Nodes, LinearNodes, Buffers, Animations, Skins, dimensions,
                   pContext, primLog, lastCall>>

(***************************************************************************)
(* Model::LoadNode, entry (267-301): called by LoadFromFile for the next   *)
(* scene root (1588-1592) or by the parent's activation for its next child *)
(* (304-310).                                                               *)
(***************************************************************************)
LoadNodeBegin ==
    /\ pc = "LoadNode"
    /\ LET fromRoot == stack = <<>>
           nodeIndex == IF fromRoot THEN gltf_model.sceneNodes[rootIdx + 1]
                        ELSE gltf_model.nodes[Top.gltf].children[Top.child + 1]
           parent == IF fromRoot THEN 0 ELSE Top.node
           id == heapCount + 1
           frame == [node |-> id, gltf |-> nodeIndex, child |-> 0, prim |-> 0,
                     NewMesh |-> <<>>, at |-> "children"]
       IN  /\ IF fromRoot
              THEN rootIdx < Len(gltf_model.sceneNodes)
              ELSE /\ Top.at = "children"
                   /\ Top.child < Len(gltf_model.nodes[Top.gltf].children)
           /\ heap' = heap @@ (id :> NewNodeObject(parent, gltf_model.nodes[nodeIndex], nodeIndex))
           /\ heapCount' = id
           /\ rootIdx' = IF fromRoot THEN rootIdx + 1 ELSE rootIdx
           /\ stack' = IF fromRoot THEN <<frame>>
                       ELSE Append([stack EXCEPT ![Len(stack)].child = @ + 1], frame)
    /\ UNCHANGED <<texVars, gpuVars, gltf_model, pc, Nodes, LinearNodes, Materials, InitData, Buffers,
                   Animations, Skins, dimensions, pContext, primLog, lastCall>>

(***************************************************************************)
(* Model::LoadNode, 312-316: after the children, the mesh (if any) is      *)
(* created from the node's matrix.                                          *)
(***************************************************************************)
LoadNodeMesh ==
    /\ pc = "LoadNode"
    /\ stack # <<>>
    /\ Top.at = "children"
    /\ Top.child = Len(gltf_model.nodes[Top.gltf].children)
    /\ stack' = IF gltf_model.nodes[Top.gltf].mesh > -1
                THEN [stack EXCEPT ![Len(stack)].at = "primitives",
                                   ![Len(stack)].NewMesh =
                                       <<NewMeshObject(heap[Top.node].Matrix)>>]
                ELSE [stack EXCEPT ![Len(stack)].at = "attach"]
    /\ UNCHANGED <<texVars, gpuVars, gltf_model, pc, rootIdx, heap, heapCount, Nodes, LinearNodes,
                   Materials, InitData, Buffers, Animations, Skins, dimensions,
                   pContext, primLog, lastCall>>

\* uint32_t indexStart = InitData->IndexData.size()      (321)
IndexStart == Len(InitData[1].IndexData)

\* uint32_t vertexStart = InitData->VertexData0.size()   (322)
VertexStart == Len(InitData[1].VertexData0)

\* The index switch (491-523): whether the component type is one it reads.
IndexTypeSupported(componentType) ==
    componentType \in {TINYGLTF_PARAMETER_TYPE_UNSIGNED_INT,
                       TINYGLTF_PARAMETER_TYPE_UNSIGNED_SHORT,
                       TINYGLTF_PARAMETER_TYPE_UNSIGNED_BYTE}

\* The raw value without the offset.
EmitIndex_NoOffset(raw, vertexStart) == raw

\* IndexData.push_back(buf[index] + vertexStart)          (498, 507, 516)
EmitIndex(raw, vertexStart) == raw + vertexStart

\* The first material instead of the default one.
PrimitiveMaterial_First(primitive) ==
    IF primitive.material >= 0 THEN primitive.material ELSE 0

\* primitive.material >= 0 ? primitive.material : Materials.size() - 1 (529).
PrimitiveMaterial(primitive) ==
    IF primitive.material >= 0 THEN primitive.material ELSE Len(Materials) - 1

(***************************************************************************)
(* Model::LoadNode, one iteration of the loop over the mesh's primitives   *)
(* (317-534): the vertices are appended, then the indices; an index         *)
(* accessor of another component type makes LoadNode return (520-522),      *)
(* which destroys NewNode (and the children it owns) and NewMesh.           *)
(***************************************************************************)
LoadNodePrimitive ==
    /\ pc = "LoadNode"
    /\ stack # <<>>
    /\ Top.at = "primitives"
    /\ Top.prim < Len(gltf_model.meshes[gltf_model.nodes[Top.gltf].mesh])
    /\ LET meshIdx == gltf_model.nodes[Top.gltf].mesh
           primitive == gltf_model.meshes[meshIdx][Top.prim + 1]
           indexStart == IndexStart
           vertexStart == VertexStart
           vertexCount == primitive.count
           hasIndices == primitive.indices > -1
           supported == IndexTypeSupported(primitive.componentType)
           newVerts0 == [v \in 1..vertexCount |-> <<meshIdx, Top.prim, v - 1>>]
           newVerts1 == [v \in 1..vertexCount |-> primitive.skinned]
           indexCount == IF hasIndices THEN Len(primitive.raw) ELSE 0
           newIndices == IF hasIndices /\ supported
                         THEN [i \in 1..Len(primitive.raw) |->
                                  EmitIndex(primitive.raw[i], vertexStart)]
                         ELSE <<>>
           newPrim == [FirstIndex  |-> indexStart,
                       IndexCount  |-> indexCount,
                       VertexCount |-> vertexCount,
                       material    |-> PrimitiveMaterial(primitive),
                       BB          |-> [Min |-> primitive.minValues,
                                        Max |-> primitive.maxValues]]
       IN  /\ InitData' = <<[InitData[1] EXCEPT
                               !.VertexData0 = @ \o newVerts0,
                               !.VertexData1 = @ \o newVerts1,
                               !.IndexData = @ \o newIndices]>>
           /\ primLog' = Append(primLog, [mesh |-> meshIdx, prim |-> Top.prim + 1,
                                          node |-> Top.node])
           /\ IF hasIndices /\ ~supported
              THEN /\ stack' = Pop
                   /\ heap' = [n \in DOMAIN heap \ Subtree(heap, Top.node) |-> heap[n]]
              ELSE /\ stack' = [stack EXCEPT
                                  ![Len(stack)].prim = @ + 1,
                                  ![Len(stack)].NewMesh[1].Primitives = Append(@, newPrim)]
                   /\ heap' = heap
    /\ UNCHANGED <<texVars, gpuVars, gltf_model, pc, rootIdx, heapCount, Nodes, LinearNodes, Materials,
                   Buffers, Animations, Skins, dimensions, pContext, lastCall>>

\* Mesh BB from BBs of primitives (536-546).
RECURSIVE MeshBBFrom(_, _, _)
MeshBBFrom(prims, k, bb) ==
    IF k > Len(prims) THEN bb
    ELSE MeshBBFrom(prims, k + 1, [Min |-> VecMin(bb.Min, prims[k].BB.Min),
                                   Max |-> VecMax(bb.Max, prims[k].BB.Max)])

\* The box of the first primitive only.
MeshBB_FirstPrimitive(mesh) ==
    IF mesh.Primitives # <<>> THEN mesh.Primitives[1].BB ELSE mesh.BB

MeshBB(mesh) ==
    IF mesh.Primitives # <<>>
    THEN MeshBBFrom(mesh.Primitives, 2, mesh.Primitives[1].BB)
    ELSE mesh.BB

(***************************************************************************)
(* Model::LoadNode, 536-559: the mesh box, NewNode->Mesh, then the node is *)
(* appended to LinearNodes and handed to its parent or to Model::Nodes.     *)
(***************************************************************************)
LoadNodeAttach ==
    /\ pc = "LoadNode"
    /\ stack # <<>>
    /\ \/ Top.at = "attach"
       \/ /\ Top.at = "primitives"
          /\ Top.prim = Len(gltf_model.meshes[gltf_model.nodes[Top.gltf].mesh])
    /\ LET n == Top.node
           parent == heap[n].Parent
           withMesh == IF Top.NewMesh # <<>>
                       THEN [heap EXCEPT ![n].Mesh =
                                <<[Top.NewMesh[1] EXCEPT !.BB = MeshBB(Top.NewMesh[1])]>>]
                       ELSE heap
       IN  /\ LinearNodes' = Append(LinearNodes, n)
           /\ IF parent # 0
              THEN /\ heap' = [withMesh EXCEPT ![parent].Children = Append(@, n)]
                   /\ Nodes' = Nodes
              ELSE /\ heap' = withMesh
                   /\ Nodes' = Append(Nodes, n)
    /\ stack' = Pop
    /\ UNCHANGED <<texVars, gpuVars, gltf_model, pc, rootIdx, heapCount, Materials, InitData, Buffers,
                   Animations, Skins, dimensions, pContext, primLog, lastCall>>


(***************************************************************************)
(* Model::FindNode and Model::NodeFromIndex (1826-1857): a depth-first     *)
(* search of the owned tree for the node with the given Index; 0 is        *)
(* nullptr.                                                                 *)
(***************************************************************************)
RECURSIVE FindNode(_, _, _)
RECURSIVE FindAmong(_, _, _, _)
FindNode(h, parent, index) ==
    IF h[parent].Index = index THEN parent
    ELSE FindAmong(h, h[parent].Children, 1, index)

FindAmong(h, seq, k, index) ==
    IF k > Len(seq) THEN 0
    ELSE LET nodeFound == FindNode(h, seq[k], index)
         IN  IF nodeFound # 0 THEN nodeFound ELSE FindAmong(h, seq, k + 1, index)

NodeFromIndex(index) == FindAmong(heap, Nodes, 1, index)

(***************************************************************************)
(* Model::LoadAnimations (1139-1274).  A keyframe value (a float4 of        *)
(* OutputsVec4) is a pair: <<x, y>> for a translation or a scale, and       *)
(* <<quarter turns, 0>> for a rotation.                                     *)
(***************************************************************************)
\* AnimationSampler{}.Interpolation when the document's string is none of the three.
DefaultInterpolation == "LINEAR"

\* AnimationChannel{}.PathType when the target path is none of the four strings.
DefaultPathType == "TRANSLATION"

LoadSampler(samp) ==
    [Interpolation |-> IF samp.interpolation \in {"LINEAR", "STEP", "CUBICSPLINE"}
                       THEN samp.interpolation
                       ELSE DefaultInterpolation,
     Inputs        |-> samp.input,
     OutputsVec4   |-> IF samp.type \in {"VEC3", "VEC4"} THEN samp.output ELSE <<>>]

ChannelPathType(target_path) ==
    CASE target_path = "rotation"    -> "ROTATION"
      [] target_path = "translation" -> "TRANSLATION"
      [] target_path = "scale"       -> "SCALE"
      [] OTHER                       -> DefaultPathType

\* The loop over gltf_anim.channels (1240-1270).
RECURSIVE LoadChannels(_, _)
LoadChannels(sources, k) ==
    IF k > Len(sources) THEN <<>>
    ELSE LET source == sources[k]
             node == NodeFromIndex(source.target_node)
         IN  IF source.target_path = "weights" \/ node = 0
             THEN LoadChannels(sources, k + 1)
             ELSE <<[PathType     |-> ChannelPathType(source.target_path),
                     SamplerIndex |-> source.sampler,
                     node         |-> node]>> \o LoadChannels(sources, k + 1)

LoadAnimation(gltf_anim) ==
    [Samplers |-> [i \in 1..Len(gltf_anim.samplers) |-> LoadSampler(gltf_anim.samplers[i])],
     Channels |-> LoadChannels(gltf_anim.channels, 1)]

\* LoadFromFile 1594-1597: reached when the loop over the scene's roots is over.
LoadAnimations ==
    /\ pc = "LoadNode"
    /\ stack = <<>>
    /\ rootIdx = Len(gltf_model.sceneNodes)
    /\ Animations' = [a \in 1..Len(gltf_model.animations) |->
                         LoadAnimation(gltf_model.animations[a])]
    /\ pc' = "LoadSkins"
    /\ UNCHANGED <<texVars, gpuVars, gltf_model, rootIdx, stack, heap, heapCount, Nodes, LinearNodes,
                   Materials, InitData, Buffers, Skins, dimensions, pContext,
                   primLog, lastCall>>

(***************************************************************************)
(* Model::LoadSkins (563-598).  An inverse-bind matrix is named by where   *)
(* it comes from: [skin, index] is matrix number index of the accessor of  *)
(* document skin number skin.                                               *)
(***************************************************************************)
\* Find joint nodes (576-584): a joint whose index resolves to no node is skipped.
RECURSIVE LoadJoints(_, _)
LoadJoints(joints, k) ==
    IF k > Len(joints) THEN <<>>
    ELSE IF NodeFromIndex(joints[k]) # 0
         THEN <<NodeFromIndex(joints[k])>> \o LoadJoints(joints, k + 1)
         ELSE LoadJoints(joints, k + 1)

\* Get inverse bind matrices from buffer (586-594): accessor.count matrices.
LoadInverseBindMatrices(s, source) ==
    IF source.inverseBindMatrices > -1
    THEN [i \in 1..source.count |-> [skin |-> s, index |-> i - 1]]
    ELSE <<>>

LoadSkin(s, source) ==
    [pSkeletonRoot       |-> IF source.skeleton > -1 THEN NodeFromIndex(source.skeleton)
                             ELSE 0,
     Joints              |-> LoadJoints(source.joints, 1),
     InverseBindMatrices |-> LoadInverseBindMatrices(s, source)]

LoadSkins ==
    /\ pc = "LoadSkins"
    /\ Skins' = [s \in 1..Len(gltf_model.skins) |-> LoadSkin(s - 1, gltf_model.skins[s])]
    /\ pc' = "InitialPose"
    /\ UNCHANGED <<texVars, gpuVars, gltf_model, rootIdx, stack, heap, heapCount, Nodes, LinearNodes,
                   Materials, InitData, Buffers, Animations, dimensions, pContext,
                   primLog, lastCall>>

(***************************************************************************)
(* Node::LocalMatrix and Node::GetMatrix (205-219).                        *)
(***************************************************************************)
LocalMatrix(h, n) ==
    MatMul(MatMul(MatMul(h[n].Matrix, ScaleMatrix(h[n].Scale)),
                  RotationToMatrix(h[n].Rotation)),
           TranslationMatrix(h[n].Translation))

\* The product in the other order.
ComposeWithParent_Swapped(mat, parentLocal) == MatMul(parentLocal, mat)

\* One step of the loop over the parents: mat = mat * p->LocalMatrix().
ComposeWithParent(mat, parentLocal) == MatMul(mat, parentLocal)

RECURSIVE GetMatrixLoop(_, _, _)
GetMatrixLoop(h, mat, p) ==
    IF p = 0 THEN mat
    ELSE GetMatrixLoop(h, ComposeWithParent(mat, LocalMatrix(h, p)), h[p].Parent)

GetMatrix(h, n) == GetMatrixLoop(h, LocalMatrix(h, n), h[n].Parent)

(***************************************************************************)
(* Node::Update (221-245).  A joint matrix                                  *)
(*   Skin->InverseBindMatrices[i] * JointNode->GetMatrix() * InverseTransform *)
(* is held unevaluated, as its three operands (the last one before the      *)
(* inversion).  Reading InverseBindMatrices[i] past the end of the vector   *)
(* yields an indeterminate matrix.                                          *)
(***************************************************************************)
IndeterminateMatrix == [skin |-> -1, index |-> -1]

JointMatrices(h, n, meshMatrix) ==
    LET skin == Skins[h[n].Skin]
    IN  [i \in 1..Len(skin.Joints) |->
            [ibm   |-> IF i <= Len(skin.InverseBindMatrices)
                       THEN skin.InverseBindMatrices[i]
                       ELSE IndeterminateMatrix,
             joint |-> GetMatrix(h, skin.Joints[i]),
             mesh  |-> meshMatrix]]

RECURSIVE UpdateNode(_, _)
RECURSIVE UpdateChildren(_, _, _)
UpdateNode(h, n) ==
    LET mat == GetMatrix(h, n)
        h1 == IF h[n].Mesh # <<>>
              THEN [h EXCEPT ![n].Mesh[1].Transforms =
                       [matrix        |-> mat,
                        jointMatrices |-> IF h[n].Skin # 0
                                          THEN JointMatrices(h, n, mat)
                                          ELSE @.jointMatrices]]
              ELSE h
    IN  UpdateChildren(h1, h1[n].Children, 1)

UpdateChildren(h, seq, k) ==
    IF k > Len(seq) THEN h ELSE UpdateChildren(UpdateNode(h, seq[k]), seq, k + 1)

\* Node::Update reads InverseBindMatrices out of bounds somewhere below n.
UpdateReadsOutOfBounds(h, n) ==
    \E m \in Subtree(h, n) :
        /\ h[m].Mesh # <<>>
        /\ h[m].Skin # 0
        /\ Len(Skins[h[m].Skin].Joints) > Len(Skins[h[m].Skin].InverseBindMatrices)

(***************************************************************************)
(* LoadFromFile 1600-1613: the skins are assigned and the initial pose is  *)
(* computed, over LinearNodes.  Undefined behaviour (a pointer of           *)
(* LinearNodes to a destroyed node, a SkinIndex past the end of Skins, an   *)
(* inverse-bind matrix read out of bounds) either ends the program or goes  *)
(* on: on a destroyed node the iteration then does nothing.                 *)
(***************************************************************************)
Dangling(h, n) == n \notin DOMAIN h

RECURSIVE PoseLoop(_, _)
PoseLoop(h, k) ==
    IF k > Len(LinearNodes) THEN h
    ELSE LET node == LinearNodes[k]
         IN  IF Dangling(h, node) THEN PoseLoop(h, k + 1)
             ELSE LET h1 == IF h[node].SkinIndex >= 0 /\ h[node].SkinIndex < Len(Skins)
                            THEN [h EXCEPT ![node].Skin = h[node].SkinIndex + 1]
                            ELSE h
                      h2 == IF h1[node].Mesh # <<>> THEN UpdateNode(h1, node) ELSE h1
                  IN  PoseLoop(h2, k + 1)

PoseIsUndefined ==
    \/ \E k \in 1..Len(LinearNodes) : Dangling(heap, LinearNodes[k])
    \/ \E n \in DOMAIN heap : heap[n].SkinIndex >= Len(Skins)
    \/ \E n \in DOMAIN PoseLoop(heap, 1) : UpdateReadsOutOfBounds(PoseLoop(heap, 1), n)

InitialPose ==
    /\ pc = "InitialPose"
    /\ \E survives \in (IF PoseIsUndefined THEN BOOLEAN ELSE {TRUE}) :
          IF survives
          THEN heap' = PoseLoop(heap, 1) /\ pc' = "CreateBuffers"
          ELSE heap' = heap /\ pc' = "crashed"
    /\ UNCHANGED <<texVars, gpuVars, gltf_model, rootIdx, stack, heapCount, Nodes, LinearNodes,
                   Materials, InitData, Buffers, Animations, Skins, dimensions,
                   pContext, primLog, lastCall>>

(***************************************************************************)
(* LoadFromFile 1618-1687.  Without a resource manager each buffer is      *)
(* created with the staged array as its initial data and the array is      *)
(* cleared; the index buffer only when there are indices.  With a resource *)
(* manager no buffer is created: space is allocated in the manager's       *)
(* buffers (the allocation is not represented), Buffers[..].pBuffer stays  *)
(* null and the arrays stay staged.                                        *)
(***************************************************************************)
CreateBuffers ==
    /\ pc = "CreateBuffers"
    /\ IF CacheInfo.pResourceMgr
       THEN UNCHANGED <<Buffers, InitData>>
       ELSE /\ Buffers' = [VERTEX0 |-> <<InitData[1].VertexData0>>,
                           VERTEX1 |-> <<InitData[1].VertexData1>>,
                           INDEX   |-> IF InitData[1].IndexData # <<>>
                                       THEN <<InitData[1].IndexData>> ELSE <<>>]
            /\ InitData' = <<[InitData[1] EXCEPT !.VertexData0 = <<>>,
                                                 !.VertexData1 = <<>>,
                                                 !.IndexData = <<>>]>>
    /\ pc' = IF pContext THEN "PrepareGPUResources" ELSE "GetSceneDimensions"
    /\ UNCHANGED <<texVars, gpuVars, gltf_model, rootIdx, stack, heap, heapCount, Nodes,
                   LinearNodes, Materials, Animations, Skins, dimensions, pContext,
                   primLog, lastCall>>

(***************************************************************************)
(* Model::PrepareGPUResources (838-921), called by LoadFromFile when it is *)
(* given a device context (1689-1692) and by the application on the loaded *)
(* Model.  A call on the context is a record; a resource in a barrier is   *)
(* [kind, id]: a texture by the number of its entry, a buffer by its       *)
(* BUFFER_ID.  pStagingTex is set nowhere, so the branch at 877 is never    *)
(* taken.                                                                   *)
(***************************************************************************)
\* Model::GetTexture(i, pDevice, pCtx): the texture of the entry, or the
\* atlas texture of its allocation, or null (<<>>).
GetTexture(TexInfo) ==
    IF TexInfo.pTexture # 0 THEN <<[kind |-> "texture", id |-> TexInfo.pTexture]>>
    ELSE IF TexInfo.pCacheAllocation # 0 THEN <<[kind |-> "atlas", id |-> 0]>>
    ELSE <<>>

\* pTexture->GetDesc().MipLevels > 1 for a texture of Levels: a texture the
\* load creates has the full chain (TexDesc.MipLevels = 0, 774), the atlas
\* region is staged with all the levels the atlas has.
HasMoreMipLevels(pTexture, Levels) == pTexture.kind = "texture" /\ Len(Levels[1]) > 1

\* The body of the loop over Textures (846-885) for texture i.
UpdateTextureCalls(TexInfo, TexData) ==
    LET pTexture == GetTexture(TexInfo)
        Levels == TexData.Levels
    IN  IF pTexture = <<>> \/ Levels = <<>>
        THEN [Calls |-> <<>>, Barriers |-> <<>>]
        ELSE [Calls |->
                 [mip \in 1..Len(Levels) |->
                     [call |-> "UpdateTexture", pTexture |-> pTexture[1],
                      mip |-> mip - 1, Data |-> Levels[mip]]]
                 \o (IF Len(Levels) = 1 /\ HasMoreMipLevels(pTexture[1], Levels)
                     THEN <<[call |-> "GenerateMips", pTexture |-> pTexture[1]]>>
                     ELSE <<>>),
              Barriers |-> IF TexInfo.pTexture # 0 THEN <<pTexture[1]>> ELSE <<>>]

\* The lambda UpdateBuffer (888-899).
UpdateBuffer(BuffId, pBuffer, Data) ==
    [Calls |-> <<[call |-> "UpdateBuffer", BuffId |-> BuffId, Data |-> Data]>>,
     Barriers |-> IF pBuffer # <<>> THEN <<[kind |-> "buffer", id |-> BuffId]>> ELSE <<>>]

\* The staged array passed over.
UpdateBufferCalls_Skipped(BuffId, pBuffer, Data) == [Calls |-> <<>>, Barriers |-> <<>>]

\* if (!InitData->...empty()) UpdateBuffer(...)               (901-915)
UpdateBufferCalls(BuffId, pBuffer, Data) ==
    IF Data # <<>> THEN UpdateBuffer(BuffId, pBuffer, Data)
    ELSE [Calls |-> <<>>, Barriers |-> <<>>]

\* The updates of parts[k..], in order, and the barriers they add.
RECURSIVE Batch(_, _)
Batch(parts, k) ==
    IF k > Len(parts) THEN [Calls |-> <<>>, Barriers |-> <<>>]
    ELSE LET rest == Batch(parts, k + 1)
         IN  [Calls |-> parts[k].Calls \o rest.Calls,
              Barriers |-> parts[k].Barriers \o rest.Barriers]

\* The staging structure left as it is.
ResetInitData_Kept(d) == d

\* InitData.reset()                                           (917)
ResetInitData(d) == <<>>

\* if (!Barriers.empty()) pCtx->TransitionResourceStates(...)  (919-920)
TransitionResourceStates(Barriers) ==
    IF Barriers # <<>>
    THEN <<[call |-> "TransitionResourceStates", Barriers |-> Barriers]>>
    ELSE <<>>

\* The calls of one pass on the staging structure d (843-920).
UploadPass(d) ==
    LET batch == Batch([i \in 1..Len(Textures) |->
                           UpdateTextureCalls(Textures[i], d.Textures[i])]
                       \o <<UpdateBufferCalls(0, Buffers.VERTEX0, d.VertexData0),
                            UpdateBufferCalls(1, Buffers.VERTEX1, d.VertexData1),
                            UpdateBufferCalls(2, Buffers.INDEX, d.IndexData)>>, 1)
    IN  batch.Calls \o TransitionResourceStates(batch.Barriers)

PrepareGPUResources ==
    /\ pc \in {"PrepareGPUResources", "loaded"}
    /\ IF InitData = <<>>
       THEN UNCHANGED <<InitData, pCtx>>
       ELSE /\ pCtx' = pCtx \o UploadPass(InitData[1])
            /\ InitData' = ResetInitData(InitData)
    /\ prepared' = TRUE
    /\ pc' = IF pc = "PrepareGPUResources" THEN "GetSceneDimensions" ELSE pc
    /\ UNCHANGED <<texVars, CacheInfo, Textures, gltf_model, rootIdx, stack, heap,
                   heapCount, Nodes, LinearNodes, Materials, Buffers, Animations, Skins,
                   dimensions, pContext, primLog, lastCall>>


(***************************************************************************)
(* Model::CalculateBoundingBox (1697-1722).  parentBvh is a local copy:    *)
(* what the function merges into it is lost when it returns, so only a     *)
(* node with a mesh, a valid mesh box and no children gets a valid BVH.    *)
(***************************************************************************)
\* Mesh::IsValidBB(): the mesh has primitives, so LoadNode has set its box.
IsValidBB(mesh) == mesh.Primitives # <<>>

RECURSIVE CalculateBoundingBox(_, _)
RECURSIVE CalculateChildren(_, _, _)
CalculateBoundingBox(h, node) ==
    LET valid == h[node].Mesh # <<>> /\ IsValidBB(h[node].Mesh[1])
        aabb == BoundBoxTransform(h[node].Mesh[1].BB, GetMatrix(h, node))
        leaf == h[node].Children = <<>>
        h1 == IF valid
              THEN [h EXCEPT ![node].AABB = aabb,
                             ![node].BVH = IF leaf THEN aabb ELSE @,
                             ![node].IsValidBVH = IF leaf THEN TRUE ELSE @]
              ELSE h
    IN  CalculateChildren(h1, h1[node].Children, 1)

CalculateChildren(h, seq, k) ==
    IF k > Len(seq) THEN h
    ELSE CalculateChildren(CalculateBoundingBox(h, seq[k]), seq, k + 1)

(***************************************************************************)
(* Model::GetSceneDimensions (1724-1749).                                  *)
(***************************************************************************)
\* The first loop: CalculateBoundingBox(node, nullptr) for every node of LinearNodes.
RECURSIVE BoxLoop(_, _)
BoxLoop(h, k) ==
    IF k > Len(LinearNodes) THEN h
    ELSE IF Dangling(h, LinearNodes[k]) THEN BoxLoop(h, k + 1)
         ELSE BoxLoop(CalculateBoundingBox(h, LinearNodes[k]), k + 1)

\* Every node contributes.
ContributesToDimensions_Always(h, node) == TRUE

\* if (node->IsValidBVH)                                    (1737)
ContributesToDimensions(h, node) == h[node].IsValidBVH

\* The second loop (1735-1742).
RECURSIVE DimensionsLoop(_, _, _)
DimensionsLoop(h, k, d) ==
    IF k > Len(LinearNodes) THEN d
    ELSE LET node == LinearNodes[k]
         IN  IF ~Dangling(h, node) /\ ContributesToDimensions(h, node)
             THEN DimensionsLoop(h, k + 1, [min |-> VecMin(d.min, h[node].BVH.Min),
                                            max |-> VecMax(d.max, h[node].BVH.Max)])
             ELSE DimensionsLoop(h, k + 1, d)

EmptyDimensions == [min |-> <<FLT_MAX, FLT_MAX>>, max |-> <<-FLT_MAX, -FLT_MAX>>]

\* Calculate scene AABBTransform (1744-1748).
SceneAABBTransform(d) ==
    <<<<d.max[1] - d.min[1], 0, 0>>, <<0, d.max[2] - d.min[2], 0>>,
      <<d.min[1], d.min[2], 1>>>>

SceneDimensions(h) ==
    LET d == DimensionsLoop(h, 1, EmptyDimensions)
    IN  [min |-> d.min, max |-> d.max, AABBTransform |-> SceneAABBTransform(d)]

\* LoadFromFile 1694: the last statement of the load.
GetSceneDimensions ==
    /\ pc = "GetSceneDimensions"
    /\ \E survives \in (IF \E k \in 1..Len(LinearNodes) : Dangling(heap, LinearNodes[k])
                        THEN BOOLEAN ELSE {TRUE}) :
          IF survives
          THEN /\ heap' = BoxLoop(heap, 1)
               /\ dimensions' = SceneDimensions(BoxLoop(heap, 1))
               /\ pc' = "loaded"
          ELSE /\ heap' = heap
               /\ dimensions' = dimensions
               /\ pc' = "crashed"
    /\ UNCHANGED <<texVars, gpuVars, gltf_model, rootIdx, stack, heapCount, Nodes, LinearNodes,
                   Materials, InitData, Buffers, Animations, Skins, pContext,
                   primLog, lastCall>>

(***************************************************************************)
(* Model::UpdateAnimation (1751-1823).  The interpolation factor u is the  *)
(* pair <<numerator, denominator>>.                                         *)
(***************************************************************************)
\* index > static_cast<Uint32>(Animations.size()) - 1        (1753)
\* With no animation the right-hand side wraps to 2^32 - 1, which no Uint32 exceeds.
NoAnimationWithIndex(index) ==
    IF Len(Animations) = 0 THEN FALSE ELSE index > Len(Animations) - 1

\* The interval without its right end.
InInterval_HalfOpen(time, left, right) == time >= left /\ time < right

\* The test without its bounds: every interval takes every time.
InInterval_Unbounded(time, left, right) == TRUE

\* (time >= sampler.Inputs[i]) && (time <= sampler.Inputs[i + 1])   (1771)
InInterval(time, left, right) == time >= left /\ time <= right

\* u = std::max(0.0f, time - Inputs[i]) / (Inputs[i + 1] - Inputs[i])   (1773)
InterpolationFactor(time, left, right) == <<MaxOf(0, time - left), right - left>>

\* u <= 1.0f (1774); 0 / 0 is NaN, which compares false.
FactorAtMostOne(u) == u[2] > 0 /\ u[1] <= u[2]

\* The switch on channel.PathType (1776-1809) for the interval [i, i + 1].
ApplyChannel(h, channel, sampler, i, u) ==
    LET a == sampler.OutputsVec4[i]
        b == sampler.OutputsVec4[i + 1]
    IN  CASE channel.PathType = "TRANSLATION" ->
                [h EXCEPT ![channel.node].Translation = VecLerp(a, b, u[1], u[2])]
          [] channel.PathType = "SCALE" ->
                [h EXCEPT ![channel.node].Scale = VecLerp(a, b, u[1], u[2])]
          [] channel.PathType = "ROTATION" ->
                [h EXCEPT ![channel.node].Rotation = Lerp(a[1], b[1], u[1], u[2])]

\* The loop over the sampler's intervals (1769-1813), from interval i on.
\* r is [heap, u, updated]: u is <<>> or <<the factor applied last>>.
RECURSIVE SamplerLoop(_, _, _, _, _)
SamplerLoop(r, channel, sampler, time, i) ==
    IF i > Len(sampler.Inputs) - 1 THEN r
    ELSE LET u == InterpolationFactor(time, sampler.Inputs[i], sampler.Inputs[i + 1])
         IN  IF InInterval(time, sampler.Inputs[i], sampler.Inputs[i + 1])
                /\ FactorAtMostOne(u)
             THEN SamplerLoop([heap    |-> ApplyChannel(r.heap, channel, sampler, i, u),
                               u       |-> <<u>>,
                               updated |-> TRUE],
                              channel, sampler, time, i + 1)
             ELSE SamplerLoop(r, channel, sampler, time, i + 1)

\* A channel the loop cannot run on without undefined behaviour: its sampler
\* index is out of range, or its sampler has no input (Inputs.size() - 1 wraps).
ChannelIsUndefined(animation, channel) ==
    \/ channel.SamplerIndex < 0
    \/ channel.SamplerIndex >= Len(animation.Samplers)
    \/ animation.Samplers[channel.SamplerIndex + 1].Inputs = <<>>

\* The loop over animation.Channels (1761-1814), from channel c on.
\* r is [heap, applied, updated]: applied[c] is <<>> or <<the factor applied last>>.
RECURSIVE ChannelLoop(_, _, _, _)
ChannelLoop(r, animation, time, c) ==
    IF c > Len(animation.Channels) THEN r
    ELSE LET channel == animation.Channels[c]
             sampler == animation.Samplers[channel.SamplerIndex + 1]
         IN  IF ChannelIsUndefined(animation, channel)
                \/ Len(sampler.Inputs) > Len(sampler.OutputsVec4)
             THEN ChannelLoop([r EXCEPT !.applied = Append(@, <<>>)],
                              animation, time, c + 1)
             ELSE LET s == SamplerLoop([heap |-> r.heap, u |-> <<>>, updated |-> r.updated],
                                       channel, sampler, time, 1)
                  IN  ChannelLoop([heap    |-> s.heap,
                                   applied |-> Append(r.applied, s.u),
                                   updated |-> s.updated],
                                  animation, time, c + 1)

\* The call without the loop over Nodes.
UpdateAfterAnimation_Skipped(r) == r.heap

\* if (updated) for (auto& node : Nodes) node->Update();     (1816-1822)
UpdateAfterAnimation(r) ==
    IF r.updated THEN UpdateChildren(r.heap, Nodes, 1) ELSE r.heap

AnimationIsUndefined(index, r) ==
    \/ index >= Len(Animations)
    \/ \E c \in 1..Len(Animations[index + 1].Channels) :
          ChannelIsUndefined(Animations[index + 1], Animations[index + 1].Channels[c])
    \/ /\ r.updated
       /\ \E k \in 1..Len(Nodes) : UpdateReadsOutOfBounds(r.heap, Nodes[k])

NoCall == [index |-> -1, time |-> -1, updated |-> FALSE, applied |-> <<>>]

UpdateAnimation(index, time) ==
    /\ pc = "loaded"
    /\ IF NoAnimationWithIndex(index)
       THEN /\ heap' = heap
            /\ pc' = pc
            /\ lastCall' = [index |-> index, time |-> time, updated |-> FALSE,
                            applied |-> <<>>]
       ELSE LET r == IF index < Len(Animations)
                     THEN ChannelLoop([heap |-> heap, applied |-> <<>>, updated |-> FALSE],
                                      Animations[index + 1], time, 1)
                     ELSE [heap |-> heap, applied |-> <<>>, updated |-> FALSE]
            IN  \E survives \in (IF AnimationIsUndefined(index, r)
                                 THEN BOOLEAN ELSE {TRUE}) :
                   IF survives
                   THEN /\ heap' = UpdateAfterAnimation(r)
                        /\ pc' = pc
                        /\ lastCall' = [index |-> index, time |-> time,
                                        updated |-> r.updated, applied |-> r.applied]
                   ELSE /\ heap' = heap
                        /\ pc' = "crashed"
                        /\ lastCall' = lastCall
    /\ UNCHANGED <<texVars, gpuVars, gltf_model, rootIdx, stack, heapCount, Nodes, LinearNodes,
                   Materials, InitData, Buffers, Animations, Skins, dimensions,
                   pContext, primLog>>

(***************************************************************************)
(* The load of one document and the calls on the loaded Model.             *)
(***************************************************************************)
Next ==
    \/ LoadMaterials
    \/ LoadNodeBegin
    \/ LoadNodeMesh
    \/ LoadNodePrimitive
    \/ LoadNodeAttach
    \/ LoadAnimations
    \/ LoadSkins
    \/ InitialPose
    \/ CreateBuffers
    \/ PrepareGPUResources
    \/ GetSceneDimensions
    \/ \E index \in 0..MaxOf(1, Len(Animations)), time \in 0..MaxTime :
          UpdateAnimation(index, time)

\* The state in which Model::LoadFromFile is entered for document doc, with
\* or without a device context and with the cache information cache.
LoadWith(doc, ctx, cache) ==
    /\ gltf_model = doc
    /\ pContext = ctx
    /\ pc = "LoadMaterials"
    /\ rootIdx = 0
    /\ stack = <<>>
    /\ heap = <<>>
    /\ heapCount = 0
    /\ Nodes = <<>>
    /\ LinearNodes = <<>>
    /\ Materials = <<>>
    /\ InitData = <<>>
    /\ Buffers = [VERTEX0 |-> <<>>, VERTEX1 |-> <<>>, INDEX |-> <<>>]
    /\ Animations = <<>>
    /\ Skins = <<>>
    /\ dimensions = [min |-> EmptyDimensions.min, max |-> EmptyDimensions.max,
                     AABBTransform |-> IdentityMatrix]
    /\ primLog = <<>>
    /\ lastCall = NoCall
    /\ CacheInfo = cache
    /\ Textures = <<>>
    /\ pCtx = <<>>
    /\ prepared = FALSE
    /\ loads = <<>>
    /\ TexturesMtx = 0
    /\ TextureCache = <<>>
    /\ deviceTextures = <<>>
    /\ ResourceMgr = [RefCounter |-> 1, Registered |-> <<>>, Allocations |-> <<>>]

\* The load without a resource manager.
LoadOf(doc, ctx) == LoadWith(doc, ctx, NoCache)


(***************************************************************************)
(* Geometry documents: two meshes on two or three nodes.  Mesh 0 is any    *)
(* sequence of 1..MaxPrims primitives with 1..MaxVerts vertices each, with  *)
(* no index accessor or one of component type 5125, 5123, 5121 or 5122      *)
(* (SHORT, which the index switch does not read); mesh 1 is fixed.  The     *)
(* load is given a device context for the documents of the first shape.     *)
(***************************************************************************)
IndexedPrimitive(count, componentType) ==
    GltfPrimitive(count, <<0, 0>>, <<count, 1>>, FALSE, 0, componentType,
                  <<0, count - 1, 0>>, -1)

NonIndexedPrimitive(count) ==
    GltfPrimitive(count, <<-count, 2>>, <<1, 3 + count>>, FALSE, -1, 0, <<>>, -1)

GeomPrimitives ==
    {NonIndexedPrimitive(c) : c \in 1..MaxVerts}
    \cup {IndexedPrimitive(c, t) : c \in 1..MaxVerts,
                                   t \in {TINYGLTF_PARAMETER_TYPE_UNSIGNED_SHORT, 5122}}
    \cup {IndexedPrimitive(MaxVerts, t) : t \in {TINYGLTF_PARAMETER_TYPE_UNSIGNED_INT,
                                                 TINYGLTF_PARAMETER_TYPE_UNSIGNED_BYTE}}

GeomMeshes == UNION {[1..n -> GeomPrimitives] : n \in 1..MaxPrims}

FixedMesh ==
    <<GltfPrimitive(2, <<1, 1>>, <<2, 3>>, FALSE, 0, TINYGLTF_PARAMETER_TYPE_UNSIGNED_SHORT,
                    <<0, 1>>, 0)>>

\* Two roots; a root whose child carries mesh 0; a root carrying mesh 0 over a
\* child; a root without mesh over two children.
TwoRoots ==
    [nodes |-> <<PlainNode(<<>>, 0), PlainNode(<<>>, 1)>>, sceneNodes |-> <<0, 1>>]

GeomShapes ==
    {TwoRoots,
     [nodes |-> <<PlainNode(<<1>>, 1), PlainNode(<<>>, 0)>>, sceneNodes |-> <<0>>],
     [nodes |-> <<PlainNode(<<1>>, 0), PlainNode(<<>>, 1)>>, sceneNodes |-> <<0>>],
     [nodes |-> <<PlainNode(<<1, 2>>, -1), PlainNode(<<>>, 0), PlainNode(<<>>, 1)>>,
      sceneNodes |-> <<0>>]}

GeomDocument(shape, mesh0) ==
    GltfDocument(shape.nodes, shape.sceneNodes, <<mesh0, FixedMesh>>, Len(mesh0),
                 <<>>, <<>>)

InitGeom ==
    \E shape \in GeomShapes, mesh0 \in GeomMeshes :
       \E ctx \in (IF shape = TwoRoots THEN BOOLEAN ELSE {FALSE}) :
          LoadOf(GeomDocument(shape, mesh0), ctx)

SpecGeom == InitGeom /\ [][Next]_vars

(***************************************************************************)
(* Upload documents: a geometry with and one without indices, and up to    *)
(* MaxTextures textures whose source image is decoded (two pixels, or one), *)
(* raw DDS, not decoded at all, or decoded but too large for the resource   *)
(* manager.  Two textures may name the same image.  The load runs with and  *)
(* without a device context and with and without a resource manager.        *)
(***************************************************************************)
GltfTextureImages ==
    {GltfTextureImage("a.png", "UNSIGNED_BYTE",
                      <<<<10, 20, 30, 200>>, <<40, 50, 60, 255>>>>, TRUE),
     GltfTextureImage("b.png", "UNSIGNED_BYTE", <<<<1, 2, 3, 4>>>>, TRUE),
     GltfTextureImage("c.dds", "DDS", <<<<68, 68, 83, 32>>>>, TRUE),
     GltfTextureImage("d.png", "NONE", <<>>, TRUE),
     GltfTextureImage("e.png", "UNSIGNED_BYTE",
                      <<<<9, 9, 9, 9>>, <<8, 8, 8, 8>>>>, FALSE)}

TextureLists == UNION {[1..n -> GltfTextureImages] : n \in 0..MaxTextures}

UploadGeometries ==
    {GeomDocument(TwoRoots, <<IndexedPrimitive(2, TINYGLTF_PARAMETER_TYPE_UNSIGNED_SHORT)>>),
     GltfDocument(<<PlainNode(<<>>, 0)>>, <<0>>, <<<<NonIndexedPrimitive(2)>>>>, 1,
                  <<>>, <<>>)}

InitUpload ==
    \E doc \in UploadGeometries, textures \in TextureLists, ctx \in BOOLEAN,
       pResourceMgr \in BOOLEAN :
       LoadWith(WithTextures(doc, textures), ctx, GLTFCacheInfo(pResourceMgr))

SpecUpload == InitUpload /\ [][Next]_vars

(***************************************************************************)
(* The shared index array: InitData->IndexData while the load stages it,   *)
(* the index buffer's data afterwards.                                      *)
(***************************************************************************)
SharedIndexArray ==
    IF Buffers.INDEX # <<>> THEN Buffers.INDEX[1]
    ELSE IF InitData # <<>> THEN InitData[1].IndexData
    ELSE <<>>

LoggedPrimitive(k) == gltf_model.meshes[primLog[k].mesh][primLog[k].prim]

HasUnsignedIndexAccessor(primitive) ==
    /\ primitive.indices > -1
    /\ primitive.componentType \in {5121, 5123, 5125}

HasUnsupportedIndexAccessor(primitive) ==
    /\ primitive.indices > -1
    /\ primitive.componentType \notin {5121, 5123, 5125}

\* The vertices of the primitives that started loading before the k-th one.
RECURSIVE VerticesBefore(_)
VerticesBefore(k) ==
    IF k <= 1 THEN 0 ELSE VerticesBefore(k - 1) + LoggedPrimitive(k - 1).count

\* Raw value plus the vertices before, for the first k primitives loaded.
RECURSIVE OffsetIndices(_)
OffsetIndices(k) ==
    IF k = 0 THEN <<>>
    ELSE OffsetIndices(k - 1) \o
         (IF HasUnsignedIndexAccessor(LoggedPrimitive(k))
          THEN [i \in 1..Len(LoggedPrimitive(k).raw) |->
                   LoggedPrimitive(k).raw[i] + VerticesBefore(k)]
          ELSE <<>>)

\* C1: every index appended to the shared index array for a primitive with an
\* 8-, 16- or 32-bit unsigned index accessor is the accessor's raw value plus
\* the number of vertices the earlier primitives (of all meshes and nodes)
\* put into the shared vertex array; so it is at least that number.
C1_IndexOffset ==
    /\ SharedIndexArray = OffsetIndices(Len(primLog))
    /\ \A k \in 1..Len(primLog) :
          HasUnsignedIndexAccessor(LoggedPrimitive(k)) =>
             \A i \in 1..Len(LoggedPrimitive(k).raw) :
                SharedIndexArray[Len(OffsetIndices(k - 1)) + i] >= VerticesBefore(k)

C1_Witness ==
    /\ pc = "loaded"
    /\ Len(primLog) >= 3
    /\ HasUnsignedIndexAccessor(LoggedPrimitive(3))
    /\ HasUnsignedIndexAccessor(LoggedPrimitive(1))
    /\ VerticesBefore(3) > VerticesBefore(2)
    /\ VerticesBefore(2) > 0
    /\ Len(SharedIndexArray) = 8

\* C4 (as the specification states it): once a primitive with an index accessor
\* of another component type has been met, the load has failed: no Model is
\* produced and no later primitive, animation or skin is loaded.
C4_UnsupportedIndexTypeAbortsLoad ==
    \A k \in 1..Len(primLog) :
       HasUnsupportedIndexAccessor(LoggedPrimitive(k)) =>
          /\ k = Len(primLog)
          /\ pc = "LoadNode"


(***************************************************************************)
(* Scene documents: up to three nodes with transforms, skins and one       *)
(* animation.  Mesh 0 is FixedMesh (box <<1, 1>>..<<2, 3>>), mesh 1 has no  *)
(* primitive.                                                               *)
(***************************************************************************)
Shear == <<<<1, 1, 0>>, <<0, 1, 0>>, <<0, 0, 1>>>>

NoTransform == [translation |-> <<>>, rotation |-> <<>>, scale |-> <<>>, matrix |-> <<>>]

NodeTransforms ==
    {NoTransform,
     [translation |-> <<<<1, 0>>>>, rotation |-> <<1>>, scale |-> <<<<2, 1>>>>,
      matrix |-> <<>>],
     [translation |-> <<<<0, 2>>>>, rotation |-> <<>>, scale |-> <<>>,
      matrix |-> <<Shear>>]}

SceneNode(children, mesh, skin, x) ==
    GltfNode(children, mesh, skin, x.translation, x.rotation, x.scale, x.matrix)

\* A root with a mesh over a node over a leaf with a mesh.
Chain(x, skin) ==
    [nodes |-> <<SceneNode(<<1>>, 0, -1, x[1]), SceneNode(<<2>>, -1, -1, x[2]),
                 SceneNode(<<>>, 0, skin, x[3])>>,
     sceneNodes |-> <<0>>]

\* A root without mesh over two leaves with a mesh.
Fan(x, skin) ==
    [nodes |-> <<SceneNode(<<1, 2>>, -1, -1, x[1]), SceneNode(<<>>, 0, skin, x[2]),
                 SceneNode(<<>>, 0, -1, x[3])>>,
     sceneNodes |-> <<0>>]

\* Two roots: a leaf with the empty mesh, and a node over a leaf with a mesh.
TwoTrees(x, skin) ==
    [nodes |-> <<SceneNode(<<>>, 1, -1, x[1]), SceneNode(<<2>>, -1, -1, x[2]),
                 SceneNode(<<>>, 0, skin, x[3])>>,
     sceneNodes |-> <<0, 1>>]

\* No node gets a valid box: the empty mesh over a leaf without mesh.
NoBox(x, skin) ==
    [nodes |-> <<SceneNode(<<1>>, 1, -1, x[1]), SceneNode(<<>>, -1, -1, x[2])>>,
     sceneNodes |-> <<0>>]

SceneDocument(shape, skins, animations) ==
    GltfDocument(shape.nodes, shape.sceneNodes, <<FixedMesh, <<>>>>, 1, skins, animations)

(***************************************************************************)
(* Animation documents.  Keyframe times and values are chosen so that      *)
(* every interpolation at an integer time is exact.                         *)
(***************************************************************************)
KeyframeTracks ==
    {[input |-> <<0, 2>>,    output |-> <<<<2, 2>>, <<4, 6>>>>],
     [input |-> <<1, 2, 4>>, output |-> <<<<2, 2>>, <<4, 4>>, <<6, 2>>>>],
     [input |-> <<1>>,       output |-> <<<<2, 2>>>>],
     [input |-> <<0, 2>>,    output |-> <<<<2, 2>>>>],
     [input |-> <<1, 1, 3>>, output |-> <<<<2, 2>>, <<4, 4>>, <<6, 2>>>>],
     [input |-> <<0, 2>>,    output |-> <<<<0, 0>>, <<2, 2>>, <<0, 0>>,
                                          <<0, 0>>, <<4, 6>>, <<0, 0>>>>]}

GltfSampler(track, interpolation) ==
    [interpolation |-> interpolation, input |-> track.input, output |-> track.output,
     type |-> "VEC3"]

GltfChannel(target_path, sampler, target_node) ==
    [target_path |-> target_path, sampler |-> sampler, target_node |-> target_node]

OneChannelAnimations ==
    {[samplers |-> <<GltfSampler(track, interpolation)>>,
      channels |-> <<GltfChannel(path, 0, node)>>] :
        track \in KeyframeTracks,
        interpolation \in {"LINEAR", "STEP", "CUBICSPLINE"},
        path \in {"translation", "rotation", "scale"},
        node \in {0, 1}}

BasicTrack == [input |-> <<0, 2>>, output |-> <<<<2, 2>>, <<4, 6>>>>]
OtherTrack == [input |-> <<1, 2, 4>>, output |-> <<<<2, 2>>, <<4, 4>>, <<6, 2>>>>]

BasicAnimation ==
    [samplers |-> <<GltfSampler(BasicTrack, "LINEAR")>>,
     channels |-> <<GltfChannel("translation", 0, 2)>>]

\* Two channels on two nodes; two channels writing the same property; a
\* morph-target channel, a channel of unknown path and one on a missing node.
TwoChannelAnimations ==
    {[samplers |-> <<GltfSampler(BasicTrack, "LINEAR"), GltfSampler(OtherTrack, "STEP")>>,
      channels |-> <<GltfChannel("translation", 0, 1), GltfChannel("scale", 1, 2)>>],
     [samplers |-> <<GltfSampler(BasicTrack, "LINEAR"), GltfSampler(OtherTrack, "LINEAR")>>,
      channels |-> <<GltfChannel("translation", 0, 1), GltfChannel("translation", 1, 1)>>],
     [samplers |-> <<GltfSampler(BasicTrack, "SMOOTH")>>,
      channels |-> <<GltfChannel("weights", 0, 1), GltfChannel("colour", 0, 1),
                     GltfChannel("scale", 0, 7)>>]}

(***************************************************************************)
(* Skin documents.                                                         *)
(***************************************************************************)
GltfSkin(skeleton, joints, inverseBindMatrices, count) ==
    [skeleton |-> skeleton, joints |-> joints,
     inverseBindMatrices |-> inverseBindMatrices, count |-> count]

\* Resolved joints with their matrices; a joint that resolves to no node;
\* no accessor; an accessor shorter and one longer than the joints.
SkinChoices ==
    {GltfSkin(0, <<1, 2>>, 0, 2),
     GltfSkin(0, <<1, 7, 2>>, 0, 3),
     GltfSkin(-1, <<1, 2>>, -1, 0),
     GltfSkin(0, <<1, 2>>, 0, 1),
     GltfSkin(0, <<2>>, 0, 2)}

SomeTransforms == <<CHOOSE x \in NodeTransforms : x.rotation # <<>>, NoTransform, NoTransform>>

TransformDocuments ==
    {SceneDocument(shape, <<>>, <<BasicAnimation>>) :
        shape \in UNION {{Chain(x, -1), Fan(x, -1), TwoTrees(x, -1), NoBox(x, -1)} :
                            x \in [1..3 -> NodeTransforms]}}

SkinDocuments ==
    {SceneDocument(shape, <<skin>>, <<BasicAnimation>>) :
        shape \in {Chain(SomeTransforms, 0), Fan(SomeTransforms, 0)},
        skin \in SkinChoices}

AnimationDocuments ==
    {SceneDocument(Fan(SomeTransforms, -1), <<>>, <<animation>>) :
        animation \in OneChannelAnimations \cup TwoChannelAnimations}

InitScene ==
    \/ \E doc \in TransformDocuments \cup AnimationDocuments : LoadOf(doc, FALSE)
    \/ \E doc \in SkinDocuments, ctx \in BOOLEAN : LoadOf(doc, ctx)

SpecScene == InitScene /\ [][Next]_vars

(***************************************************************************)
(* Material documents: one scene, loaded with every list of one to         *)
(* MaxMaterials materials out of GltfMaterials.  Textures are named by     *)
(* index only.                                                             *)
(***************************************************************************)
\* An opaque material without alphaMode; alpha-cut materials with the
\* default and with a declared cutoff; a blended material; an alpha-cut
\* material without base colour texture; a specular-glossiness material
\* with its texture, and one with a diffuse texture only.
GltfMaterials ==
    {GltfMaterial(0, 1, "", -1, <<>>),
     GltfMaterial(0, -1, "MASK", -1, <<>>),
     GltfMaterial(0, -1, "MASK", 25, <<>>),
     GltfMaterial(0, -1, "BLEND", -1, <<>>),
     GltfMaterial(-1, -1, "MASK", -1, <<>>),
     GltfMaterial(1, -1, "OPAQUE", -1, SpecularGlossiness(2, -1)),
     GltfMaterial(0, 1, "", -1, SpecularGlossiness(-1, 2))}

MaterialLists == UNION {[1..n -> GltfMaterials] : n \in 1..MaxMaterials}

InitMat ==
    \E materials \in MaterialLists, ctx \in BOOLEAN :
       LoadOf(WithMaterials(SceneDocument(Fan(SomeTransforms, -1), <<>>,
                                          <<BasicAnimation>>), materials), ctx)

SpecMat == InitMat /\ [][Next]_vars


(***************************************************************************)
(* Properties of the transforms and the boxes.                             *)
(***************************************************************************)
\* Local(x) = x.Matrix * Scale(x.Scale) * RotationMatrix(x.Rotation) * Translation(x.Translation)
Local(n) ==
    MatMul(heap[n].Matrix,
           MatMul(ScaleMatrix(heap[n].Scale),
                  MatMul(RotationToMatrix(heap[n].Rotation),
                         TranslationMatrix(heap[n].Translation))))

\* Local(n) * Local(p1) * ... * Local(pk) along the parent chain of n.
RECURSIVE World(_)
World(n) ==
    IF heap[n].Parent = 0 THEN Local(n)
    ELSE MatMul(Local(n), World(heap[n].Parent))

PoseAssigned == pc \in {"CreateBuffers", "PrepareGPUResources", "GetSceneDimensions", "loaded"}

\* C8: the world matrix GetMatrix returns for a node is the ordered product
\* Local(n) * Local(p1) * ... * Local(pk) over its parent chain, with
\* Local(x) = Matrix * Scale * Rotation * Translation; for a root it is the
\* local matrix.  It is what Node::Update stores as the mesh's matrix.
C8_WorldMatrixIsOrderedProduct ==
    \A n \in DOMAIN heap :
       /\ GetMatrix(heap, n) = World(n)
       /\ heap[n].Parent = 0 => GetMatrix(heap, n) = Local(n)
       /\ PoseAssigned /\ heap[n].Mesh # <<>> =>
             heap[n].Mesh[1].Transforms.matrix = World(n)

C8_Witness ==
    /\ pc = "loaded"
    /\ lastCall.updated
    /\ \E n \in DOMAIN heap :
          /\ heap[n].Parent # 0
          /\ heap[heap[n].Parent].Parent # 0
          /\ heap[n].Mesh # <<>>
          /\ heap[n].Mesh[1].Transforms.matrix = World(n)
          /\ World(n) # MatMul(World(heap[n].Parent), Local(n))
          /\ MatMul(heap[n].Matrix, TranslationMatrix(heap[n].Translation))
                # MatMul(TranslationMatrix(heap[n].Translation), heap[n].Matrix)

\* The least and the greatest of a non-empty set of numbers.
Least(S) == CHOOSE v \in S : \A w \in S : v <= w
Greatest(S) == CHOOSE v \in S : \A w \in S : v >= w

ValidNodes == {n \in DOMAIN heap : heap[n].IsValidBVH}

\* C10: after load, the scene dimensions are the componentwise minimum and
\* maximum over the volume-hierarchy boxes of exactly the nodes whose box is
\* valid; the others contribute nothing (with no valid box at all the
\* dimensions stay at their +/-FLT_MAX start).
C10_DimensionsOverValidBoxes ==
    pc = "loaded" =>
       \A c \in 1..2 :
          /\ dimensions.min[c] =
                Least({FLT_MAX} \cup {heap[n].BVH.Min[c] : n \in ValidNodes})
          /\ dimensions.max[c] =
                Greatest({-FLT_MAX} \cup {heap[n].BVH.Max[c] : n \in ValidNodes})

C10_Witness ==
    /\ pc = "loaded"
    /\ lastCall = NoCall
    /\ \E a, b \in ValidNodes :
          /\ heap[a].BVH.Min[1] < heap[b].BVH.Min[1]
          /\ heap[a].BVH.Max[1] < heap[b].BVH.Max[1]
          /\ dimensions.min[1] = heap[a].BVH.Min[1]
          /\ dimensions.max[1] = heap[b].BVH.Max[1]
    /\ \E n \in DOMAIN heap \ ValidNodes :
          heap[n].BVH.Min[2] < dimensions.min[2]

\* C5 (as the specification states it): after an update_animation call that
\* changed a channel value, every node's box and the scene dimensions are
\* the ones a recomputation from the current transforms gives.
C5_BoxesFollowAnimation ==
    pc = "loaded" /\ lastCall.updated =>
       /\ heap = BoxLoop(heap, 1)
       /\ dimensions = SceneDimensions(BoxLoop(heap, 1))

(***************************************************************************)
(* Properties of the skins.                                                 *)
(***************************************************************************)
\* C9 (as the specification states it): in every skin the inverse-bind
\* matrices are as many as the joints, and matrix i is the one the document
\* gives for the node stored at Joints[i].
C9_InverseBindMatricesAligned ==
    pc \notin {"LoadMaterials", "LoadNode", "LoadSkins"} =>
       \A s \in 1..Len(Skins) :
          /\ Len(Skins[s].InverseBindMatrices) = Len(Skins[s].Joints)
          /\ \A i \in 1..Len(Skins[s].Joints) :
                /\ i <= Len(Skins[s].InverseBindMatrices)
                /\ heap[Skins[s].Joints[i]].Index =
                      gltf_model.skins[s].joints[Skins[s].InverseBindMatrices[i].index + 1]


(***************************************************************************)
(* Properties of the animation update, stated on the state after a call:   *)
(* lastCall holds the call's arguments and the factor each channel applied  *)
(* last.                                                                    *)
(***************************************************************************)
StrictlyIncreasing(seq) == \A i \in 1..(Len(seq) - 1) : seq[i] < seq[i + 1]

CalledAnimation == Animations[lastCall.index + 1]

AfterCall == pc = "loaded" /\ lastCall.index >= 0 /\ lastCall.index < Len(Animations)

SamplerOf(c) == CalledAnimation.Samplers[CalledAnimation.Channels[c].SamplerIndex + 1]

\* The property channel c targets holds the keyframe value v.
ChannelShows(c, v) ==
    LET channel == CalledAnimation.Channels[c]
    IN  CASE channel.PathType = "TRANSLATION" -> heap[channel.node].Translation = v
          [] channel.PathType = "SCALE"       -> heap[channel.node].Scale = v
          [] channel.PathType = "ROTATION"    -> heap[channel.node].Rotation = v[1]

\* No later channel of the animation wrote the property channel c targets.
LastWriter(c) ==
    \A d \in (c + 1)..Len(CalledAnimation.Channels) :
       \/ CalledAnimation.Channels[d].node # CalledAnimation.Channels[c].node
       \/ CalledAnimation.Channels[d].PathType # CalledAnimation.Channels[c].PathType
       \/ lastCall.applied[d] = <<>>

C7_StepHoldsLeftKeyframe ==
    AfterCall =>
       \A c \in 1..Len(CalledAnimation.Channels) :
          \A i \in 1..(Len(SamplerOf(c).Inputs) - 1) :
             /\ SamplerOf(c).Interpolation = "STEP"
             /\ StrictlyIncreasing(SamplerOf(c).Inputs)
             /\ Len(SamplerOf(c).OutputsVec4) >= Len(SamplerOf(c).Inputs)
             /\ SamplerOf(c).Inputs[i] <= lastCall.time
             /\ lastCall.time < SamplerOf(c).Inputs[i + 1]
             /\ LastWriter(c)
             => ChannelShows(c, SamplerOf(c).OutputsVec4[i])


(***************************************************************************)
(* The texture path of Model::LoadFromFile.                                *)
(*                                                                         *)
(* A texture load is one LoadFromFile call made by the constructor of its  *)
(* own Model object, given the shared texture cache and, when its pCache   *)
(* is set, the resource manager.  Its position is                          *)
(*   "idle"                 not called yet                                 *)
(*   "parse"                in the parser, between two images              *)
(*   "LoadImageData"        in the image callback, holding TexturesMtx     *)
(*   "decode"               in the image callback, past the cache lookup   *)
(*   "LoadTextures"         in LoadTextures, between two textures          *)
(*   "find"                 in LoadTextures, holding TexturesMtx (706)     *)
(*   "create"               in LoadTextures, past the cache lookup         *)
(*   "emplace"              in LoadTextures, about to lock at 828          *)
(*   "emplace_locked"       in LoadTextures, holding TexturesMtx (828)     *)
(*   "done" / "failed"      LoadFromFile has returned / thrown             *)
(*   "destroyed"            the Model has been destroyed                   *)
(***************************************************************************)
Loaders == {1, 2}

\* A pixel of so many components, grey and opaque.
GreyPixel(components) == SubSeq(<<128, 128, 128, 255>>, 1, components)

\* An image of the document: its uri, what Image::GetFileFormat says of its
\* bytes, whether Image::CreateFromDataBlob decodes them, the decoded size and
\* component count, the decoded pixels row by row (one tuple of bytes per
\* pixel), and the size the parser requests of the callback.
GltfImage(uri, format, decodes, width, height, components, req_width, req_height) ==
    [uri |-> uri, format |-> format, decodes |-> decodes, Width |-> width,
     Height |-> height, NumComponents |-> components,
     pixels |-> [i \in 1..(width * height) |-> GreyPixel(components)],
     req_width |-> req_width, req_height |-> req_height]

\* The image with other pixels, in one row.
WithPixels(image, pixels) ==
    [image EXCEPT !.pixels = pixels, !.Width = Len(pixels), !.Height = 1,
                  !.NumComponents = Len(pixels[1])]

\* tinygltf::Image as the parser hands it to the callback.
NewGltfImage ==
    [width |-> -1, height |-> -1, component |-> -1, pixel_type |-> "NONE",
     image |-> <<>>, failed |-> FALSE]

\* LoaderData.BaseDir (1543-1545): the directory of the file name, if it has
\* one, then '/'.
BaseDir(filename) == (IF filename.dir # <<>> THEN filename.dir[1] ELSE "") \o "/"

\* CacheId = BaseDir + gltf_image.uri                    (685, 1312)
CacheId(filename, gltf_image) == BaseDir(filename) \o gltf_image.uri

NewLoad(filename, images, textures, materials, pCache) ==
    [pc          |-> "idle",
     filename    |-> filename,
     materials   |-> materials,    \* gltf_model.materials
     TexInitData |-> <<>>,         \* level 0 of the texture LoadTextures is on
     InitDataTextures |-> <<>>,    \* InitData->Textures: level 0 of each texture
     AlphaCutoffs |-> <<>>,        \* history: the cutoff found for each new texture
     Log         |-> <<>>,         \* the warnings logged
     pCache      |-> pCache,       \* the load is given a GLTFCacheInfo
     AllocationsHold |-> <<>>,
     images      |-> images,       \* the document's images (their bytes)
     textures    |-> textures,     \* gltf_model.textures: the source image of each
     image       |-> 0,            \* the image the parser is on
     gltf_images |-> [i \in 1..Len(images) |-> NewGltfImage],
     TextureHold |-> <<>>,
     InitData    |-> FALSE,        \* Model::InitData is not null
     tex         |-> 0,            \* Textures.size(): the texture LoadTextures is on
     TexInfo     |-> NewTextureInfo,
     Textures    |-> <<>>,
     after       |-> {}]           \* history: the loads that had returned when this one began

\* The strong references a load and its Model hold.
StrongRefs(ld) ==
    {ld.TextureHold[i] : i \in 1..Len(ld.TextureHold)}
    \cup {ld.Textures[i].pTexture : i \in 1..Len(ld.Textures)}
    \cup {ld.TexInfo.pTexture}

\* The texture object is alive: somebody holds a strong reference to it.
IsAlive(t) == t # 0 /\ \E l \in Loaders : t \in StrongRefs(loads[l])

\* RefCntWeakPtr::Lock(): the texture, or null (0) when it has been destroyed.
WeakLock(t) == IF IsAlive(t) THEN t ELSE 0

\* pTextureCache->Textures.erase(it)
CacheErase(cache, id) == [k \in DOMAIN cache \ {id} |-> cache[k]]

\* The cache left as it is.
CacheEmplace_Dropped(cache, id, t) == cache

\* pTextureCache->Textures.emplace(CacheId, TexInfo.pTexture): no effect when
\* the key is already in the map.                        (829)
CacheEmplace(cache, id, t) ==
    IF id \in DOMAIN cache THEN cache ELSE cache @@ (id :> t)

\* A guard that outlives its block: the mutex stays with the load.
Unlock_Held(l) == l

\* ~lock_guard at the end of the block it is declared in (728, 830, 1364):
\* the mutex is free again.
Unlock(l) == 0

\* LoadFromFile 1516-1570: the call enters the parser.
LoadFromFileBegin(l) ==
    /\ loads[l].pc = "idle"
    /\ loads' = [loads EXCEPT ![l].pc = "parse",
                              ![l].after = {m \in Loaders : loads[m].pc = "done"}]
    /\ ResourceMgr' = IF loads[l].pCache
                      THEN [ResourceMgr EXCEPT !.RefCounter = @ + 1]
                      ELSE ResourceMgr
    /\ UNCHANGED <<sceneVars, TexturesMtx, TextureCache, deviceTextures>>

\* Callbacks::LoadImageData 1314-1331: with a resource manager the callback
\* asks it for an allocation made under the key of the image.
LoadImageDataFindAllocation(l) ==
    /\ loads[l].pc = "parse"
    /\ loads[l].image < Len(loads[l].images)
    /\ loads[l].pCache
    /\ LET ld == loads[l]
           pAllocation == FindAllocation(CacheId(ld.filename, ld.images[ld.image + 1]))
       IN  loads' = IF pAllocation # 0
                    THEN [loads EXCEPT
                            ![l].gltf_images[ld.image + 1] =
                                [width      |-> ResourceMgr.Allocations[pAllocation].Width,
                                 height     |-> ResourceMgr.Allocations[pAllocation].Height,
                                 component  |-> 4,
                                 pixel_type |-> "UNSIGNED_BYTE",
                                 image      |-> <<>>,
                                 failed     |-> FALSE],
                            ![l].AllocationsHold = Append(@, pAllocation),
                            ![l].image = @ + 1]
                    ELSE [loads EXCEPT ![l].pc = "decode"]
    /\ UNCHANGED <<sceneVars, ResourceMgr, TexturesMtx, TextureCache, deviceTextures>>

\* Callbacks::LoadImageData 1333-1337: the parser calls back for its next
\* image; the callback locks the cache.
LoadImageDataLock(l) ==
    /\ loads[l].pc = "parse"
    /\ loads[l].image < Len(loads[l].images)
    /\ ~loads[l].pCache
    /\ TexturesMtx = 0
    /\ TexturesMtx' = l
    /\ loads' = [loads EXCEPT ![l].pc = "LoadImageData"]
    /\ UNCHANGED <<sceneVars, ResourceMgr, TextureCache, deviceTextures>>

\* Callbacks::LoadImageData 1339-1364: the lookup under the lock.
LoadImageDataFind(l) ==
    /\ loads[l].pc = "LoadImageData"
    /\ LET ld == loads[l]
           id == CacheId(ld.filename, ld.images[ld.image + 1])
           found == id \in DOMAIN TextureCache
           pTexture == IF found THEN WeakLock(TextureCache[id]) ELSE 0
       IN  IF pTexture # 0
           THEN /\ loads' = [loads EXCEPT
                               ![l].gltf_images[ld.image + 1] =
                                   [width      |-> deviceTextures[pTexture].Width,
                                    height     |-> deviceTextures[pTexture].Height,
                                    component  |-> 4,
                                    pixel_type |-> "UNSIGNED_BYTE",
                                    image      |-> <<>>,
                                    failed     |-> FALSE],
                               ![l].TextureHold = Append(@, pTexture),
                               ![l].image = @ + 1,
                               ![l].pc = "parse"]
                /\ TextureCache' = TextureCache
           ELSE /\ loads' = [loads EXCEPT ![l].pc = "decode"]
                /\ TextureCache' = IF found THEN CacheErase(TextureCache, id)
                                   ELSE TextureCache
    /\ TexturesMtx' = Unlock(l)
    /\ UNCHANGED <<sceneVars, ResourceMgr, deviceTextures>>

\* Callbacks::LoadImageData 1367-1473: whether the callback returns true.
Decodes(image) ==
    /\ image.format # "UNKNOWN"
    /\ image.format \in {"DDS", "KTX"} \/
          /\ image.decodes
          /\ image.req_width > 0 => image.req_width = image.Width
          /\ image.req_height > 0 => image.req_height = image.Height

\* Callbacks::LoadImageData 1441-1465: a pixel of the 4-component image the
\* callback writes, from a source pixel of 3 components (DstPixel[3] = 1) or
\* of 4 components (memcpy).
DecodedPixel(SrcPixel, NumComponents) ==
    IF NumComponents = 3
    THEN <<SrcPixel[1], SrcPixel[2], SrcPixel[3], 1>>
    ELSE SrcPixel

\* What the callback leaves in gltf_image when it returns true: the raw
\* bytes of a DDS / KTX file (1380-1384), or the decoded pixels (1431-1465).
DecodedImage(image) ==
    IF image.format \in {"DDS", "KTX"}
    THEN [NewGltfImage EXCEPT !.pixel_type = image.format, !.image = image.pixels]
    ELSE [width |-> image.Width, height |-> image.Height, component |-> 4,
          pixel_type |-> "UNSIGNED_BYTE",
          image |-> [p \in 1..Len(image.pixels) |->
                        DecodedPixel(image.pixels[p], image.NumComponents)],
          failed |-> FALSE]

(***************************************************************************)
(* Callbacks::LoadImageData 1367-1473 and LoadFromFile 1566-1574.  When    *)
(* the callback returns false, the parser (tinygltf, not part of this      *)
(* repository's sources) either fails, and LoadFromFile throws at 1573,    *)
(* or goes on with the image left as it is.                                 *)
(***************************************************************************)
LoadImageDataDecode(l) ==
    /\ loads[l].pc = "decode"
    /\ LET ld == loads[l]
           image == ld.images[ld.image + 1]
       IN  \E fileLoaded \in (IF Decodes(image) THEN {TRUE} ELSE BOOLEAN) :
              loads' = [loads EXCEPT
                          ![l].gltf_images[ld.image + 1] =
                              IF Decodes(image) THEN DecodedImage(image)
                              ELSE [@ EXCEPT !.failed = TRUE],
                          ![l].image = @ + 1,
                          ![l].TextureHold = IF fileLoaded THEN @ ELSE <<>>,
                          ![l].AllocationsHold = IF fileLoaded THEN @ ELSE <<>>,
                          ![l].pc = IF fileLoaded THEN "parse" ELSE "failed"]
    /\ UNCHANGED <<sceneVars, ResourceMgr, TexturesMtx, TextureCache, deviceTextures>>

\* LoadFromFile 1571-1582: the parser has returned true; InitData is created.
ParseDone(l) ==
    /\ loads[l].pc = "parse"
    /\ loads[l].image = Len(loads[l].images)
    /\ loads' = [loads EXCEPT ![l].InitData = TRUE, ![l].pc = "LoadTextures"]
    /\ UNCHANGED <<sceneVars, ResourceMgr, TexturesMtx, TextureCache, deviceTextures>>

\* Model::LoadTextures 680-706: the next texture; the cache is locked.
LoadTexturesLock(l) ==
    /\ loads[l].pc = "LoadTextures"
    /\ loads[l].tex < Len(loads[l].textures)
    /\ ~loads[l].pCache
    /\ TexturesMtx = 0
    /\ TexturesMtx' = l
    /\ loads' = [loads EXCEPT ![l].pc = "find"]
    /\ UNCHANGED <<sceneVars, ResourceMgr, TextureCache, deviceTextures>>

\* Model::LoadTextures 680-703: the next texture, with a resource manager.
LoadTexturesFindAllocation(l) ==
    /\ loads[l].pc = "LoadTextures"
    /\ loads[l].tex < Len(loads[l].textures)
    /\ loads[l].pCache
    /\ LET ld == loads[l]
           source == ld.textures[ld.tex + 1]
       IN  loads' = [loads EXCEPT
                       ![l].TexInfo = [pTexture |-> 0,
                                       pCacheAllocation |->
                                          FindAllocation(CacheId(ld.filename,
                                                                 ld.images[source + 1]))],
                       ![l].pc = "create"]
    /\ UNCHANGED <<sceneVars, ResourceMgr, TexturesMtx, TextureCache, deviceTextures>>

\* Model::LoadTextures 708-728: the lookup under the lock.  A stale entry is
\* erased only when the image carries neither a size nor a raw format;
\* otherwise UNEXPECTED reports it (719-720) and the entry stays.
LoadTexturesFind(l) ==
    /\ loads[l].pc = "find"
    /\ LET ld == loads[l]
           source == ld.textures[ld.tex + 1]
           gltf_image == ld.gltf_images[source + 1]
           id == CacheId(ld.filename, ld.images[source + 1])
           found == id \in DOMAIN TextureCache
           pTexture == IF found THEN WeakLock(TextureCache[id]) ELSE 0
           unexpected == \/ gltf_image.width > 0 /\ gltf_image.height > 0
                         \/ gltf_image.pixel_type \in {"DDS", "KTX"}
       IN  /\ loads' = [loads EXCEPT ![l].TexInfo = [pTexture |-> pTexture,
                                                    pCacheAllocation |-> 0],
                                     ![l].Log = IF found /\ pTexture = 0 /\ unexpected
                                                THEN Append(@, [Texture |-> ld.tex,
                                                                warning |-> "stale texture"])
                                                ELSE @,
                                     ![l].pc = "create"]
           /\ TextureCache' = IF found /\ pTexture = 0 /\ ~unexpected
                              THEN CacheErase(TextureCache, id)
                              ELSE TextureCache
    /\ TexturesMtx' = Unlock(l)
    /\ UNCHANGED <<sceneVars, ResourceMgr, deviceTextures>>

\* GLTFResourceManager::AllocateTextureSpace(0, width, height) at 752, when
\* the manager finds room: an allocation of that size, registered under no key.
AllocateTextureSpace(width, height) == [Width |-> width, Height |-> height]

\* pDevice->CreateTexture(TexDesc, ...) at 779, CreateTextureFromDDS / KTX at
\* 794 / 798, and the stub at 823.
NewTexture(name, width, height, data, id) ==
    [Name |-> name, Width |-> width, Height |-> height, data |-> data, CacheId |-> id]

\* Model::LoadTextures 730-824 and, when there is nothing to put in the
\* cache, 833-834.
LoadTexturesCreate(l) ==
    /\ loads[l].pc = "create"
    /\ LET ld == loads[l]
           source == ld.textures[ld.tex + 1]
           gltf_image == ld.gltf_images[source + 1]
           id == CacheId(ld.filename, ld.images[source + 1])
           sized == gltf_image.width > 0 /\ gltf_image.height > 0
           raw == gltf_image.pixel_type \in {"DDS", "KTX"}
           created == IF sized
                      THEN IF ld.pCache THEN <<>>
                           ELSE <<NewTexture("GLTF Texture", gltf_image.width,
                                             gltf_image.height, gltf_image.image # <<>>, id)>>
                      ELSE IF raw
                           THEN <<NewTexture(gltf_image.pixel_type,
                                             ld.images[source + 1].Width,
                                             ld.images[source + 1].Height, TRUE, id)>>
                           ELSE <<>>
           stub == IF ~ld.InitData
                   THEN <<NewTexture("Checkerboard stub texture", 32, 32, TRUE, id)>>
                   ELSE <<>>
           pTexture == IF stub # <<>> THEN Len(deviceTextures) + Len(created) + 1
                       ELSE IF created # <<>> THEN Len(deviceTextures) + 1
                       ELSE 0
           cutoff == GetTextureAlphaCutoffValue(ld.materials, Len(ld.Textures))
       IN  IF IsValid(ld.TexInfo)
           THEN /\ loads' = [loads EXCEPT ![l].Textures = Append(@, ld.TexInfo),
                                          ![l].InitDataTextures = Append(@, <<>>),
                                          ![l].TexInfo = NewTextureInfo,
                                          ![l].tex = @ + 1,
                                          ![l].pc = "LoadTextures"]
                /\ UNCHANGED <<deviceTextures, ResourceMgr>>
           ELSE \E allocated \in (IF sized /\ ld.pCache THEN BOOLEAN ELSE {FALSE}) :
                   LET pCacheAllocation ==
                          IF allocated THEN Len(ResourceMgr.Allocations) + 1 ELSE 0
                       TexInfo == [pTexture |-> pTexture,
                                   pCacheAllocation |-> pCacheAllocation]
                       TexInitData ==
                          IF sized /\ (allocated \/ ~ld.pCache)
                          THEN PrepareGLTFTextureInitData(gltf_image, cutoff.AlphaCutoff)
                          ELSE <<>>
                       logged == [w \in 1..Len(cutoff.warnings) |->
                                     [Texture |-> Len(ld.Textures),
                                      warning |-> cutoff.warnings[w]]]
                       found == [Texture |-> Len(ld.Textures),
                                 AlphaCutoff |-> cutoff.AlphaCutoff]
                   IN  /\ deviceTextures' = deviceTextures \o created \o stub
                       /\ ResourceMgr' =
                             IF allocated
                             THEN [ResourceMgr EXCEPT
                                     !.Allocations =
                                        Append(@, AllocateTextureSpace(gltf_image.width,
                                                                       gltf_image.height))]
                             ELSE ResourceMgr
                       /\ loads' = IF pTexture # 0
                                   THEN [loads EXCEPT ![l].TexInfo = TexInfo,
                                                      ![l].TexInitData = TexInitData,
                                                      ![l].Log = @ \o logged,
                                                      ![l].AlphaCutoffs = Append(@, found),
                                                      ![l].pc = "emplace"]
                                   ELSE [loads EXCEPT ![l].Textures = Append(@, TexInfo),
                                                      ![l].InitDataTextures =
                                                          Append(@, TexInitData),
                                                      ![l].Log = @ \o logged,
                                                      ![l].AlphaCutoffs = Append(@, found),
                                                      ![l].tex = @ + 1,
                                                      ![l].pc = "LoadTextures"]
    /\ UNCHANGED <<sceneVars, TexturesMtx, TextureCache>>

\* Model::LoadTextures 826-828: the cache is locked for the insertion.
LoadTexturesEmplaceLock(l) ==
    /\ loads[l].pc = "emplace"
    /\ TexturesMtx = 0
    /\ TexturesMtx' = l
    /\ loads' = [loads EXCEPT ![l].pc = "emplace_locked"]
    /\ UNCHANGED <<sceneVars, ResourceMgr, TextureCache, deviceTextures>>

\* Model::LoadTextures 829-834: the insertion, then the entry is appended.
LoadTexturesEmplace(l) ==
    /\ loads[l].pc = "emplace_locked"
    /\ LET ld == loads[l]
           source == ld.textures[ld.tex + 1]
           id == CacheId(ld.filename, ld.images[source + 1])
       IN  /\ TextureCache' = CacheEmplace(TextureCache, id, ld.TexInfo.pTexture)
           /\ loads' = [loads EXCEPT ![l].Textures = Append(@, ld.TexInfo),
                                     ![l].InitDataTextures = Append(@, ld.TexInitData),
                                     ![l].TexInfo = NewTextureInfo,
                                     ![l].TexInitData = <<>>,
                                     ![l].tex = @ + 1,
                                     ![l].pc = "LoadTextures"]
    /\ TexturesMtx' = Unlock(l)
    /\ UNCHANGED <<sceneVars, ResourceMgr, deviceTextures>>

\* LoadTextures returns; the rest of LoadFromFile (the first state machine)
\* touches no texture, and its return destroys TextureHold.
LoadFromFileReturn(l) ==
    /\ loads[l].pc = "LoadTextures"
    /\ loads[l].tex = Len(loads[l].textures)
    /\ loads' = [loads EXCEPT ![l].TextureHold = <<>>, ![l].AllocationsHold = <<>>,
                              ![l].pc = "done"]
    /\ UNCHANGED <<sceneVars, ResourceMgr, TexturesMtx, TextureCache, deviceTextures>>

\* Model::~Model (259-265): the reference on the resource manager is
\* released; the Model goes, and its texture entries with it.
DestroyModel(l) ==
    /\ loads[l].pc = "done"
    /\ loads' = [loads EXCEPT ![l].Textures = <<>>, ![l].pc = "destroyed"]
    /\ ResourceMgr' = IF loads[l].pCache
                      THEN [ResourceMgr EXCEPT !.RefCounter = @ - 1]
                      ELSE ResourceMgr
    /\ UNCHANGED <<sceneVars, TexturesMtx, TextureCache, deviceTextures>>

NextTex ==
    \E l \in Loaders :
       \/ LoadFromFileBegin(l)
       \/ LoadImageDataFindAllocation(l)
       \/ LoadImageDataLock(l)
       \/ LoadImageDataFind(l)
       \/ LoadImageDataDecode(l)
       \/ ParseDone(l)
       \/ LoadTexturesFindAllocation(l)
       \/ LoadTexturesLock(l)
       \/ LoadTexturesFind(l)
       \/ LoadTexturesCreate(l)
       \/ LoadTexturesEmplaceLock(l)
       \/ LoadTexturesEmplace(l)
       \/ LoadFromFileReturn(l)
       \/ DestroyModel(l)

(***************************************************************************)
(* Texture documents and the files they are loaded from.                   *)
(***************************************************************************)
Png(uri) == GltfImage(uri, "PNG", TRUE, 4, 2, 4, 0, 0)

\* One image; two images and a texture sharing one of them; an image of
\* unknown format; an image the decoder rejects; an image whose size is not
\* the requested one; two embedded images (no uri).
TexDocuments ==
    {[images |-> <<Png("a.png")>>, textures |-> <<0>>],
     [images |-> <<Png("a.png"), GltfImage("b.dds", "DDS", TRUE, 8, 8, 4, 0, 0)>>,
      textures |-> <<0, 1, 0>>],
     [images |-> <<GltfImage("a.png", "UNKNOWN", FALSE, 4, 2, 4, 0, 0)>>,
      textures |-> <<0>>],
     [images |-> <<Png("a.png"), GltfImage("b.png", "PNG", FALSE, 4, 2, 4, 0, 0)>>,
      textures |-> <<1, 0>>],
     [images |-> <<GltfImage("a.png", "PNG", TRUE, 4, 2, 3, 8, 2)>>,
      textures |-> <<0>>],
     [images |-> <<Png(""), GltfImage("", "PNG", TRUE, 8, 8, 4, 0, 0)>>,
      textures |-> <<0, 1>>]}

FileInDirectory == [dir |-> <<"a">>, name |-> "scene.gltf"]
FileWithoutDirectory == [dir |-> <<>>, name |-> "scene.gltf"]

\* No scene load is in progress.
SceneIdle ==
    /\ gltf_model = GltfDocument(<<>>, <<>>, <<>>, 0, <<>>, <<>>)
    /\ pContext = FALSE
    /\ pc = "idle"
    /\ rootIdx = 0
    /\ stack = <<>>
    /\ heap = <<>>
    /\ heapCount = 0
    /\ Nodes = <<>>
    /\ LinearNodes = <<>>
    /\ Materials = <<>>
    /\ InitData = <<>>
    /\ Buffers = [VERTEX0 |-> <<>>, VERTEX1 |-> <<>>, INDEX |-> <<>>]
    /\ Animations = <<>>
    /\ Skins = <<>>
    /\ dimensions = [min |-> EmptyDimensions.min, max |-> EmptyDimensions.max,
                     AABBTransform |-> IdentityMatrix]
    /\ primLog = <<>>
    /\ lastCall = NoCall
    /\ CacheInfo = NoCache
    /\ Textures = <<>>
    /\ pCtx = <<>>
    /\ prepared = FALSE

\* The resource manager as the application hands it over: with no
\* allocation, or with one that was made for the image a/a.png.
ResourceManagers ==
    {[RefCounter |-> 1, Registered |-> <<>>, Allocations |-> <<>>],
     [RefCounter |-> 1, Registered |-> ("a/a.png" :> 1),
      Allocations |-> <<AllocateTextureSpace(4, 2)>>]}

\* Loader 1 is given the texture cache alone; loader 2 is given the texture
\* cache and, in half of the cases, the resource manager.
InitTex ==
    /\ SceneIdle
    /\ \E d1, d2 \in TexDocuments, f2 \in {FileInDirectory, FileWithoutDirectory},
          pCache \in BOOLEAN :
          /\ loads = <<NewLoad(FileInDirectory, d1.images, d1.textures, <<>>, FALSE),
                       NewLoad(f2, d2.images, d2.textures, <<>>, pCache)>>
          /\ ResourceMgr \in (IF pCache THEN ResourceManagers
                               ELSE {CHOOSE m \in ResourceManagers : m.Allocations = <<>>})
    /\ TexturesMtx = 0
    /\ TextureCache = <<>>
    /\ deviceTextures = <<>>

SpecTex == InitTex /\ [][NextTex]_vars

(***************************************************************************)
(* Pixel documents: one image of one row of 1..MaxPixels pixels of three   *)
(* or four components, used by at most one material; and two images used   *)
(* by every list of one to MaxMaterials materials out of GltfMaterials.    *)
(* Loader 1 loads such a document with the texture cache alone; loader 2   *)
(* loads a.png with the resource manager, which has an allocation for it.  *)
(***************************************************************************)
Pixels ==
    {<<10, 20, 30, 0>>, <<10, 20, 30, 200>>, <<255, 0, 128, 255>>, <<255, 0, 128, 1>>,
     <<10, 20, 30>>, <<255, 0, 128>>}

\* The rows whose pixels all have the same number of components.
PixelRows ==
    UNION {{row \in [1..n -> Pixels] : \A p \in 1..n : Len(row[p]) = Len(row[1])} :
              n \in 1..MaxPixels}

\* No material; alpha-cut materials with the default cutoff 0.5, with 0.25
\* and with 1.
CutoffMaterials ==
    {<<>>,
     <<GltfMaterial(0, -1, "MASK", -1, <<>>)>>,
     <<GltfMaterial(0, -1, "MASK", 25, <<>>)>>,
     <<GltfMaterial(0, -1, "MASK", 100, <<>>)>>}

PixelDocuments ==
    {[images |-> <<WithPixels(Png("p.png"), row)>>, textures |-> <<0>>,
      materials |-> materials] : row \in PixelRows, materials \in CutoffMaterials}
    \cup
    {[images |-> <<WithPixels(Png("p.png"), <<<<10, 20, 30, 200>>>>),
                   WithPixels(Png("q.png"), <<<<255, 0, 128>>>>)>>,
      textures |-> <<0, 1>>, materials |-> materials] : materials \in MaterialLists}

InitPixels ==
    /\ SceneIdle
    /\ \E d \in PixelDocuments :
          loads = <<NewLoad(FileInDirectory, d.images, d.textures, d.materials, FALSE),
                    NewLoad(FileInDirectory, <<Png("a.png")>>, <<0>>, <<>>, TRUE)>>
    /\ ResourceMgr \in {m \in ResourceManagers : m.Allocations # <<>>}
    /\ TexturesMtx = 0
    /\ TextureCache = <<>>
    /\ deviceTextures = <<>>

SpecPixels == InitPixels /\ [][NextTex]_vars


(***************************************************************************)
(* Properties of the texture path.                                         *)
(***************************************************************************)
\* Load b is the same scene as load a, begun after a had returned, a's Model
\* is still alive, b has returned too, and every image of the scene decodes.
SameSceneTwice(a, b) ==
    /\ a # b
    /\ loads[a].pc = "done"
    /\ loads[b].pc = "done"
    /\ ~loads[a].pCache
    /\ ~loads[b].pCache
    /\ a \in loads[b].after
    /\ loads[a].filename = loads[b].filename
    /\ loads[a].images = loads[b].images
    /\ loads[a].textures = loads[b].textures
    /\ \A i \in 1..Len(loads[a].images) : Decodes(loads[a].images[i])

\* The distinct image URIs the textures of load a use.
TextureURIs(a) ==
    {loads[a].images[loads[a].textures[k] + 1].uri : k \in 1..Len(loads[a].textures)}

C3_FailedImageGetsPlaceholder ==
    \A l \in Loaders :
       /\ (\E i \in 1..Len(loads[l].gltf_images) : loads[l].gltf_images[i].failed)
             => loads[l].pc # "failed"
       /\ \A k \in 1..Len(loads[l].Textures) :
             loads[l].gltf_images[loads[l].textures[k] + 1].failed =>
                /\ loads[l].Textures[k].pTexture # 0
                /\ deviceTextures[loads[l].Textures[k].pTexture].Name
                      = "Checkerboard stub texture"
                /\ deviceTextures[loads[l].Textures[k].pTexture].Width = 32
                /\ deviceTextures[loads[l].Textures[k].pTexture].Height = 32


(***************************************************************************)
(* Properties of the meshes and the materials.                             *)
(***************************************************************************)
\* The primitives the document gives the mesh of node n.
DocumentPrimitives(n) == gltf_model.meshes[gltf_model.nodes[heap[n].Index].mesh]

\* C11: the box of a mesh with at least one primitive is the componentwise
\* minimum of its primitives' box minima and the componentwise maximum of
\* their maxima, a primitive's box being the min / max the document declares
\* for its position accessor.
C11_MeshBoxIsUnionOfPrimitiveBoxes ==
    \A n \in DOMAIN heap :
       heap[n].Mesh # <<>> /\ heap[n].Mesh[1].Primitives # <<>> =>
          /\ Len(heap[n].Mesh[1].Primitives) = Len(DocumentPrimitives(n))
          /\ \A k \in 1..Len(DocumentPrimitives(n)) :
                heap[n].Mesh[1].Primitives[k].BB =
                   [Min |-> DocumentPrimitives(n)[k].minValues,
                    Max |-> DocumentPrimitives(n)[k].maxValues]
          /\ \A c \in 1..2 :
                /\ heap[n].Mesh[1].BB.Min[c] =
                      Least({DocumentPrimitives(n)[k].minValues[c] :
                                k \in 1..Len(DocumentPrimitives(n))})
                /\ heap[n].Mesh[1].BB.Max[c] =
                      Greatest({DocumentPrimitives(n)[k].maxValues[c] :
                                   k \in 1..Len(DocumentPrimitives(n))})

C11_Witness ==
    /\ pc = "loaded"
    /\ \E n \in DOMAIN heap :
          /\ heap[n].Mesh # <<>>
          /\ Len(heap[n].Mesh[1].Primitives) = 2
          /\ heap[n].Mesh[1].BB.Min[1] < heap[n].Mesh[1].Primitives[1].BB.Min[1]
          /\ heap[n].Mesh[1].BB.Min[2] < heap[n].Mesh[1].Primitives[2].BB.Min[2]
          /\ heap[n].Mesh[1].BB.Max[1] > heap[n].Mesh[1].Primitives[2].BB.Max[1]
          /\ heap[n].Mesh[1].BB.Max[2] > heap[n].Mesh[1].Primitives[1].BB.Max[2]


\* C20: after material loading the materials list has one entry per document
\* material plus one, the last entry is the default material, and every
\* primitive the document gives no material stores the index of that last
\* entry, which is still the last entry when the load has finished.
C20_DefaultMaterialIsLast ==
    pc \notin {"idle", "LoadMaterials"} =>
       /\ Len(Materials) = Len(gltf_model.materials) + 1
       /\ Materials[Len(Materials)] = DefaultMaterial
       /\ \A i \in 1..Len(gltf_model.materials) :
             Materials[i] = LoadMaterial(gltf_model.materials[i])
       /\ \A n \in DOMAIN heap :
             heap[n].Mesh # <<>> =>
                \A k \in 1..Len(heap[n].Mesh[1].Primitives) :
                   DocumentPrimitives(n)[k].material < 0 =>
                      heap[n].Mesh[1].Primitives[k].material = Len(Materials) - 1

C20_Witness ==
    /\ pc = "loaded"
    /\ Len(gltf_model.materials) = 2
    /\ \E n, m \in DOMAIN heap :
          /\ heap[n].Mesh # <<>> /\ heap[m].Mesh # <<>>
          /\ \E k \in 1..Len(heap[n].Mesh[1].Primitives) :
                /\ DocumentPrimitives(n)[k].material < 0
                /\ heap[n].Mesh[1].Primitives[k].material = 2
          /\ \E k \in 1..Len(heap[m].Mesh[1].Primitives) :
                /\ DocumentPrimitives(m)[k].material = 0
                /\ heap[m].Mesh[1].Primitives[k].material = 0


(***************************************************************************)
(* Properties of the animation channels.                                   *)
(***************************************************************************)
SupportedPaths == {"translation", "rotation", "scale"}

\* The channels of a document animation that target a node of the Model
\* with one of the three supported paths.
SupportedChannels(gltf_anim) ==
    SelectSeq(gltf_anim.channels,
              LAMBDA source : /\ source.target_path \in SupportedPaths
                              /\ NodeFromIndex(source.target_node) # 0)

\* C19: a channel is dropped whenever its target node does not resolve or
\* its target path is not translation, rotation or scale; the channels kept
\* are exactly the remaining ones of the document, in document order, each
\* with a target node and the path type the document names.
C19_UnsupportedChannelsDropped ==
    pc \in {"loaded", "crashed"} =>
       \A a \in 1..Len(Animations) :
          LET kept == SupportedChannels(gltf_model.animations[a])
          IN  /\ Len(Animations[a].Channels) = Len(kept)
              /\ \A k \in 1..Len(kept) :
                    /\ Animations[a].Channels[k].node =
                          NodeFromIndex(kept[k].target_node)
                    /\ Animations[a].Channels[k].PathType =
                          ChannelPathType(kept[k].target_path)


\* C18 (as the specification states it): a loaded material whose document
\* material carries the specular-glossiness extension block has the
\* spec-gloss workflow flag, with or without a specular-glossiness texture in
\* the block; every other material has the metal-rough flag.
C18_WorkflowFollowsExtension ==
    pc \notin {"idle", "LoadMaterials"} =>
       \A i \in 1..Len(gltf_model.materials) :
          Materials[i].Workflow =
             (IF gltf_model.materials[i].extension # <<>>
              THEN "PBR_WORKFLOW_SPEC_GLOSS" ELSE "PBR_WORKFLOW_METALL_ROUGH")


(***************************************************************************)
(* Properties of the cache keys and the texture entries.                   *)
(***************************************************************************)
\* C13 (as the specification states it): two textures of one document whose
\* source images are different images have different cache keys, and the
\* later one is never resolved to the texture of the earlier one; images
\* embedded in the container, whose uri is empty, included.
C13_CacheKeysAreCollisionFree ==
    \A l \in Loaders :
       \A j, k \in 1..Len(loads[l].Textures) :
          j < k /\ loads[l].textures[j] # loads[l].textures[k] =>
             /\ CacheId(loads[l].filename, loads[l].images[loads[l].textures[j] + 1])
                   # CacheId(loads[l].filename, loads[l].images[loads[l].textures[k] + 1])
             /\ \/ loads[l].Textures[k].pTexture = 0
                \/ loads[l].Textures[k].pTexture # loads[l].Textures[j].pTexture


\* C12 (as the specification states it): every texture entry of a loaded
\* Model has exactly one of its two representations, the owned texture or
\* the allocation of the resource manager, never both and never neither.
C12_ExactlyOneRepresentation ==
    \A l \in Loaders :
       loads[l].pc = "done" =>
          \A k \in 1..Len(loads[l].Textures) :
             (loads[l].Textures[k].pTexture # 0)
                # (loads[l].Textures[k].pCacheAllocation # 0)

\* The loads that hold the reference LoadFromFile takes on the resource
\* manager: those given the manager that have begun and whose Model has
\* neither failed to load nor been destroyed.
HoldsManagerReference(l) ==
    loads[l].pCache /\ loads[l].pc \notin {"idle", "failed", "destroyed"}

\* C14 (as the specification states it): the reference a load takes on the
\* resource manager is released exactly once, when the loaded Model is
\* destroyed or when the load fails: the manager's counter is the owner's
\* reference plus one per load that still holds its reference.
C14_ManagerReferenceReleasedOnce ==
    ResourceMgr.RefCounter =
       1 + Cardinality({l \in Loaders : HoldsManagerReference(l)})


(***************************************************************************)
(* Properties of the pixels and the alpha cutoff.                          *)
(***************************************************************************)
\* The document image texture k (counted from 1) of load l shows.
SourceImage(l, k) == loads[l].images[loads[l].textures[k] + 1]

\* Texture k of load l was made from freshly decoded pixels.
FreshlyDecoded(l, k) ==
    /\ k \in 1..Len(loads[l].InitDataTextures)
    /\ loads[l].InitDataTextures[k] # <<>>

\* The cutoff LoadTextures found for texture k of load l.
CutoffOf(l, k) ==
    (CHOOSE e \in {loads[l].AlphaCutoffs[i] : i \in 1..Len(loads[l].AlphaCutoffs)} :
        e.Texture = k - 1).AlphaCutoff

\* v is max(a, 1/3 a + 2/3 c 255) cut to an integer, c given in hundredths.
IsRemapped(v, a, c) ==
    /\ v >= a
    /\ v = a \/ 300 * v <= 100 * a + 2 * 255 * c
    /\ 100 * a + 2 * 255 * c < 300 * (v + 1)

\* C15: for a freshly decoded 4-channel image with a cutoff c in (0, 1],
\* every pixel keeps R, G and B and gets the alpha max(a, a/3 + 2/3 c 255)
\* as an 8-bit value, which is at least the old alpha and at most 255 (for
\* c = 0.5, 0 becomes 85, 200 stays 200 and 255 stays 255); for c <= 0 the
\* pixels are passed through unchanged.
C15_AlphaRemap ==
    \A l \in Loaders :
       \A k \in 1..Len(loads[l].InitDataTextures) :
          FreshlyDecoded(l, k) /\ SourceImage(l, k).NumComponents = 4 =>
             LET src == SourceImage(l, k).pixels
                 dst == loads[l].InitDataTextures[k]
                 c == CutoffOf(l, k)
             IN  /\ Len(dst) = Len(src)
                 /\ c <= 0 => dst = src
                 /\ c > 0 =>
                     \A p \in 1..Len(src) :
                        /\ SubSeq(dst[p], 1, 3) = SubSeq(src[p], 1, 3)
                        /\ IsRemapped(dst[p][4], src[p][4], c)
                        /\ dst[p][4] >= src[p][4]
                        /\ dst[p][4] <= 255
                        /\ c = 50 /\ src[p][4] = 0 => dst[p][4] = 85
                        /\ c = 50 /\ src[p][4] = 200 => dst[p][4] = 200
                        /\ c = 50 /\ src[p][4] = 255 => dst[p][4] = 255

C15_Witness ==
    /\ loads[1].pc = "done"
    /\ FreshlyDecoded(1, 1)
    /\ CutoffOf(1, 1) = 50
    /\ SourceImage(1, 1).pixels = <<<<10, 20, 30, 0>>, <<10, 20, 30, 200>>>>
    /\ loads[1].InitDataTextures[1] = <<<<10, 20, 30, 85>>, <<10, 20, 30, 200>>>>

\* C16 (as the specification states it): when the image callback decodes a
\* 3-channel image, the image it leaves has the same width and height, four
\* components, and every pixel is the source R, G, B followed by the opaque
\* alpha 255.
C16_ThreeChannelGetsOpaqueAlpha ==
    \A l \in Loaders :
       \A i \in 1..Len(loads[l].images) :
          loads[l].images[i].NumComponents = 3 /\ loads[l].gltf_images[i].image # <<>> =>
             /\ loads[l].gltf_images[i].width = loads[l].images[i].Width
             /\ loads[l].gltf_images[i].height = loads[l].images[i].Height
             /\ loads[l].gltf_images[i].component = 4
             /\ \A p \in 1..Len(loads[l].images[i].pixels) :
                   loads[l].gltf_images[i].image[p] =
                      loads[l].images[i].pixels[p] \o <<255>>

\* Material m of load l uses texture t as its base colour texture.
UsesTexture(l, m, t) == loads[l].materials[m].baseColorTexture = t

\* Material m of load l is an alpha-cut material: MASK with a non-zero cutoff.
IsAlphaCut(l, m) ==
    /\ loads[l].materials[m].alphaMode = "MASK"
    /\ loads[l].materials[m].alphaCutoff # 0

\* C17 (as the specification states it): when a texture is the base colour
\* texture of an alpha-cut material and of a material that is not alpha-cut,
\* in whatever order the document lists them, the cutoff found for the
\* texture is 0 and a conflict warning is logged for it.
C17_ConflictDisablesRemapAndWarns ==
    \A l \in Loaders :
       \A e \in 1..Len(loads[l].AlphaCutoffs) :
          LET t == loads[l].AlphaCutoffs[e].Texture
              users == {m \in 1..Len(loads[l].materials) : UsesTexture(l, m, t)}
          IN  /\ \E m \in users : IsAlphaCut(l, m)
              /\ \E m \in users : loads[l].materials[m].alphaMode # "MASK"
              => /\ loads[l].AlphaCutoffs[e].AlphaCutoff = 0
                 /\ \E w \in 1..Len(loads[l].Log) :
                       /\ loads[l].Log[w].Texture = t
                       /\ loads[l].Log[w].warning = "alpha-cut and non-alpha-cut"


\* C26 (as the specification states it): a call of UpdateAnimation whose index
\* is not smaller than the number of loaded animations only logs and returns:
\* the call completes, no node changes and no channel was applied, also for a
\* Model that has no animation at all.
C26_OutOfRangeIndexOnlyWarns ==
    [][\A index \in 0..MaxOf(1, Len(Animations)), time \in 0..MaxTime :
          (index >= Len(Animations) /\ UpdateAnimation(index, time)) =>
             /\ pc' = "loaded"
             /\ heap' = heap
             /\ lastCall'.index = index
             /\ ~lastCall'.updated]_vars


\* Time lies in no keyframe interval [Inputs[i], Inputs[i + 1]] of any sampler
\* that a channel of the loaded animation refers to.
OutsideEveryInterval(animation, time) ==
    \A c \in 1..Len(animation.Channels) :
       LET k == animation.Channels[c].SamplerIndex + 1
       IN  k \in 1..Len(animation.Samplers) =>
              \A i \in 1..(Len(animation.Samplers[k].Inputs) - 1) :
                 \/ time < animation.Samplers[k].Inputs[i]
                 \/ time > animation.Samplers[k].Inputs[i + 1]

\* C30: a call of UpdateAnimation with a valid index and a time that lies in no
\* keyframe interval of the animation's channels completes, leaves every node
\* (translation, rotation, scale, mesh matrices) as it was and updates no node.
C30_TimeOutsideKeyframesChangesNothing ==
    [][\A index \in 0..MaxOf(1, Len(Animations)), time \in 0..MaxTime :
          (/\ index < Len(Animations)
           /\ OutsideEveryInterval(Animations[index + 1], time)
           /\ UpdateAnimation(index, time)) =>
             /\ pc' = "loaded"
             /\ heap' = heap
             /\ lastCall' = [index |-> index, time |-> time, updated |-> FALSE,
                             applied |-> [c \in 1..Len(Animations[index + 1].Channels)
                                             |-> <<>>]]]_vars

\* A call before the first keyframe and a call after the last one have been
\* made on a Model whose animation has a channel with at least one interval;
\* the state is the one after the later call, which followed a call that moved
\* a node.
C30_Witness ==
    /\ pc = "loaded"
    /\ lastCall.index \in 0..(Len(Animations) - 1)
    /\ ~lastCall.updated
    /\ OutsideEveryInterval(Animations[lastCall.index + 1], lastCall.time)
    /\ \E c \in 1..Len(Animations[lastCall.index + 1].Channels) :
          LET channel == Animations[lastCall.index + 1].Channels[c]
              sampler == Animations[lastCall.index + 1].Samplers[channel.SamplerIndex + 1]
          IN  /\ Len(sampler.Inputs) = 3
              /\ Len(sampler.OutputsVec4) = 3
              /\ lastCall.time < sampler.Inputs[1]
              /\ channel.node \in 1..Len(heap)
              /\ channel.PathType = "TRANSLATION"
              /\ heap[channel.node].Translation = sampler.OutputsVec4[3]


\* The nodes the tree owns: those reachable from a root through Children.
OwnedByTree ==
    UNION {Subtree(heap, Nodes[r]) : r \in {k \in 1..Len(Nodes) : ~Dangling(heap, Nodes[k])}}

\* C27 (as the specification states it): every pointer of LinearNodes refers to
\* a live node at every point, and once the scene's roots are loaded every one
\* of them is reachable from a root through Children, also when the loading of
\* a node was abandoned after its children had been loaded.
C27_LinearNodesAreLive ==
    \A k \in 1..Len(LinearNodes) :
       /\ ~Dangling(heap, LinearNodes[k])
       /\ pc \notin {"idle", "LoadMaterials", "LoadNode"} => LinearNodes[k] \in OwnedByTree


\* The joint matrices of mesh node n are one per joint of its skin, each made
\* of the joint's current world matrix and the node's current world matrix.
JointMatricesAreCurrent(n) ==
    LET skin == Skins[heap[n].Skin]
        jointMatrices == heap[n].Mesh[1].Transforms.jointMatrices
    IN  /\ Len(jointMatrices) = Len(skin.Joints)
        /\ \A i \in 1..Len(skin.Joints) :
              /\ jointMatrices[i].joint = GetMatrix(heap, skin.Joints[i])
              /\ jointMatrices[i].mesh = GetMatrix(heap, n)

\* C28: once the load has returned, and after every call of UpdateAnimation,
\* each node with a mesh stores as the mesh's matrix the value GetMatrix
\* returns for it now and, when it has a skin, one joint matrix per joint of
\* the skin, computed from the joints' current world matrices.
C28_MeshMatricesAreCurrent ==
    pc = "loaded" =>
       \A n \in DOMAIN heap :
          heap[n].Mesh # <<>> =>
             /\ heap[n].Mesh[1].Transforms.matrix = GetMatrix(heap, n)
             /\ heap[n].Skin # 0 => JointMatricesAreCurrent(n)

\* An animation call has moved a node, and a skinned mesh node with two joints
\* has a joint whose world matrix is not the identity.
C28_Witness ==
    /\ pc = "loaded"
    /\ lastCall.updated
    /\ \E n \in DOMAIN heap :
          /\ heap[n].Mesh # <<>>
          /\ heap[n].Skin # 0
          /\ Len(heap[n].Mesh[1].Transforms.jointMatrices) = 2
          /\ heap[n].Mesh[1].Transforms.jointMatrices[2].joint # IdentityMatrix
          /\ heap[n].Mesh[1].Transforms.jointMatrices[1].joint
                # heap[n].Mesh[1].Transforms.jointMatrices[2].joint


\* The positions of a load inside a critical section: the lookup of the image
\* callback, the lookup of LoadTextures and the insertion of LoadTextures.
CriticalSections == {"LoadImageData", "find", "emplace_locked"}

\* C21: a load holds the cache mutex only while it is at a single lookup or a
\* single insertion, never at the image decode, the texture creation or any
\* later position, and the step it takes while holding the mutex (the lookup
\* with its eviction, or the insertion) releases it.
C21_MutexHeldOnlyForLookupOrInsert ==
    /\ [](\A l \in Loaders : TexturesMtx = l => loads[l].pc \in CriticalSections)
    /\ [][\A l \in Loaders :
             TexturesMtx = l /\ loads'[l] # loads[l] => TexturesMtx' = 0]_vars

\* One load is creating a texture from an image it has decoded while the
\* other holds the mutex for its lookup.
C21_Witness ==
    /\ loads[1].pc = "create"
    /\ loads[1].gltf_images[loads[1].textures[loads[1].tex + 1] + 1].width > 0
    /\ TexturesMtx = 2
    /\ loads[2].pc = "find"


\* C22 (as the specification states it): no load's texture-binding step ever
\* finds an expired cache entry for an image the load has decoded itself: the
\* branch that reports a stale texture is never taken.
C22_StaleTextureBranchUnreachable ==
    \A l \in Loaders :
       \A w \in 1..Len(loads[l].Log) : loads[l].Log[w].warning # "stale texture"


\* Loads a and b are the same scene with the shared texture cache and no
\* resource manager, neither began after the other had returned, both have
\* returned and both Models are alive; every image of the scene decodes.
SameSceneConcurrently(a, b) ==
    /\ a # b
    /\ loads[a].pc = "done"
    /\ loads[b].pc = "done"
    /\ ~loads[a].pCache
    /\ ~loads[b].pCache
    /\ a \notin loads[b].after
    /\ b \notin loads[a].after
    /\ loads[a].filename = loads[b].filename
    /\ loads[a].images = loads[b].images
    /\ loads[a].textures = loads[b].textures
    /\ \A i \in 1..Len(loads[a].images) : Decodes(loads[a].images[i])

\* C25 (as the specification states it): when two loads of the same scene run
\* concurrently with one shared texture cache, then after both have returned
\* every texture entry of the one Model is the resource of the other Model's
\* entry, and it is the resource the cache holds under the image's key.
C25_ConcurrentLoadsShareTextures ==
    \A a, b \in Loaders :
       SameSceneConcurrently(a, b) =>
          \A k \in 1..Len(loads[a].textures) :
             LET id == CacheId(loads[a].filename,
                               loads[a].images[loads[a].textures[k] + 1])
             IN  /\ loads[a].Textures[k].pTexture # 0
                 /\ loads[a].Textures[k].pTexture = loads[b].Textures[k].pTexture
                 /\ id \in DOMAIN TextureCache
                 /\ TextureCache[id] = loads[a].Textures[k].pTexture


\* The positions in the context's call sequence of the state-transition calls.
TransitionCalls == {k \in 1..Len(pCtx) : pCtx[k].call = "TransitionResourceStates"}

\* The resources the load has created and the Model owns: the texture objects
\* of its texture entries and the buffers of its three slots.
OwnedResources ==
    {[kind |-> "texture", id |-> Textures[i].pTexture] :
        i \in {j \in 1..Len(Textures) : Textures[j].pTexture # 0}}
    \cup (IF Buffers.VERTEX0 # <<>> THEN {[kind |-> "buffer", id |-> 0]} ELSE {})
    \cup (IF Buffers.VERTEX1 # <<>> THEN {[kind |-> "buffer", id |-> 1]} ELSE {})
    \cup (IF Buffers.INDEX # <<>> THEN {[kind |-> "buffer", id |-> 2]} ELSE {})

\* The number of times resource r stands in the barrier list Barriers.
TimesIn(Barriers, r) == Cardinality({j \in 1..Len(Barriers) : Barriers[j] = r})

\* C23 (as the specification states it): once the upload pass has run, the
\* context has received at most one state-transition call, it is the last
\* call of the pass, and its barrier list holds every texture and buffer the
\* load created and owns exactly once.
C23_BarriersCoverEveryCreatedResource ==
    prepared =>
       /\ Cardinality(TransitionCalls) <= 1
       /\ \A k \in TransitionCalls : k = Len(pCtx)
       /\ \A r \in OwnedResources :
             \E k \in TransitionCalls : TimesIn(pCtx[k].Barriers, r) = 1


\* C29: a call of PrepareGPUResources leaves the Model without its staging
\* structure, and a call on a Model on which PrepareGPUResources has been
\* called before issues no call on the context and changes nothing.
C29_PrepareGPUResourcesIsIdempotent ==
    [][PrepareGPUResources =>
          /\ InitData' = <<>>
          /\ prepared => UNCHANGED vars]_vars

\* The application has called PrepareGPUResources on a Model that was loaded
\* without a device context; the pass has updated a texture, generated its
\* mip levels and made the transition call, and the staging structure is
\* gone, so that a further call finds none.
C29_Witness ==
    /\ pc = "loaded"
    /\ ~pContext
    /\ prepared
    /\ InitData = <<>>
    /\ \E k \in 1..Len(pCtx) : pCtx[k].call = "UpdateTexture"
    /\ \E k \in 1..Len(pCtx) : pCtx[k].call = "GenerateMips"
    /\ TransitionCalls # {}
    /\ ENABLED PrepareGPUResources


\* The staged arrays by the BUFFER_ID of the buffer they are for.
StagedArray(d, BuffId) ==
    CASE BuffId = 0 -> d.VertexData0
      [] BuffId = 1 -> d.VertexData1
      [] BuffId = 2 -> d.IndexData

BufferOf(b, BuffId) ==
    CASE BuffId = 0 -> b.VERTEX0
      [] BuffId = 1 -> b.VERTEX1
      [] BuffId = 2 -> b.INDEX

\* The step releases the staged array of buffer BuffId: it held data, and the
\* step clears it or destroys the staging structure.
ReleasesArray(BuffId) ==
    /\ InitData # <<>>
    /\ StagedArray(InitData[1], BuffId) # <<>>
    /\ InitData' = <<>> \/ StagedArray(InitData'[1], BuffId) = <<>>

\* The step releases the staged level 0 of texture i.
ReleasesLevels(i) ==
    /\ InitData # <<>>
    /\ i \in 1..Len(InitData[1].Textures)
    /\ InitData[1].Textures[i].Levels # <<>>
    /\ InitData' = <<>> \/ InitData'[1].Textures[i].Levels = <<>>

\* The positions of the calls the step issues on the context.
NewCalls == (Len(pCtx) + 1)..Len(pCtx')

\* The step issues UpdateBuffer for buffer BuffId with Data.
IssuesUpdateBuffer(BuffId, Data) ==
    \E k \in NewCalls : /\ pCtx'[k].call = "UpdateBuffer"
                        /\ pCtx'[k].BuffId = BuffId
                        /\ pCtx'[k].Data = Data

\* The step issues UpdateTexture for level 0 of pTexture with Data.
IssuesUpdateTexture(pTexture, Data) ==
    \E k \in NewCalls : /\ pCtx'[k].call = "UpdateTexture"
                        /\ pCtx'[k].pTexture = pTexture
                        /\ pCtx'[k].mip = 0
                        /\ pCtx'[k].Data = Data

\* The staged data of the load is all there: every level LoadTextures has
\* prepared and every vertex LoadNode has staged.
StagedDataIntact ==
    /\ InitData # <<>>
    /\ InitData[1].Textures =
          LoadTextures(gltf_model.textures, gltf_model.materials).InitDataTextures
    /\ Len(InitData[1].VertexData0) = VerticesBefore(Len(primLog) + 1)
    /\ Len(InitData[1].VertexData1) = VerticesBefore(Len(primLog) + 1)

=============================================================================
